---- MODULE Spec2Model ----
(***************************************************************************)
(* Random number generator interface (random.c): the linear-congruential  *)
(* engine, the drand48 fallback and the Box-Muller batch transforms.      *)
(*                                                                         *)
(* Machine integers wider than TLC's are kept exactly, as natural numbers *)
(* in little-endian base 2^14 without trailing zero limbs (<<>> is 0).    *)
(* A double is kept exactly as an integer numerator over a power of two.  *)
(***************************************************************************)
EXTENDS Integers, Sequences, FiniteSets, TLC

----------------------------------------------------------------------------
(* Exact natural-number arithmetic.                                        *)

LimbBits == 7 + 7
Base == 2 ^ LimbBits

RECURSIVE Norm(_)
Norm(x) == IF x = <<>> THEN <<>>
           ELSE IF x[Len(x)] = 0 THEN Norm(SubSeq(x, 1, Len(x) - 1)) ELSE x

Limb(x, i) == IF i >= 1 /\ i <= Len(x) THEN x[i] ELSE 0

\* the limbs of x + y from the i-th on, c the carry into the i-th; xp and yp
\* are x and y followed by zero limbs up to n limbs at least
RECURSIVE AddCarry(_, _, _, _, _)
AddCarry(xp, yp, i, n, c) ==
    IF i > n THEN (IF c = 0 THEN <<>> ELSE <<c>>)
    ELSE LET s == xp[i] + yp[i] + c
         IN  <<s % Base>> \o AddCarry(xp, yp, i + 1, n, s \div Base)

Add(x, y) == IF x = <<>> THEN y
             ELSE IF y = <<>> THEN x
             ELSE IF Len(x) >= Len(y)
             THEN Norm(AddCarry(x, y \o [i \in 1..(Len(x) - Len(y)) |-> 0], 1, Len(x), 0))
             ELSE Norm(AddCarry(x \o [i \in 1..(Len(y) - Len(x)) |-> 0], y, 1, Len(y), 0))

RECURSIVE SubBorrow(_, _, _, _, _)
SubBorrow(x, y, i, n, c) ==
    IF i > n THEN <<>>
    ELSE LET s == Limb(x, i) - Limb(y, i) - c
         IN  IF s < 0 THEN <<s + Base>> \o SubBorrow(x, y, i + 1, n, 1)
             ELSE <<s>> \o SubBorrow(x, y, i + 1, n, 0)

\* x - y for x >= y
Sub(x, y) == IF y = <<>> THEN x ELSE Norm(SubBorrow(x, y, 1, Len(x), 0))

RECURSIVE CmpFrom(_, _, _)
CmpFrom(x, y, i) ==
    IF i = 0 THEN 0
    ELSE IF x[i] > y[i] THEN 1
    ELSE IF x[i] < y[i] THEN -1
    ELSE CmpFrom(x, y, i - 1)

\* -1, 0, 1 as x < y, x = y, x > y
Cmp(x, y) == IF Len(x) > Len(y) THEN 1
             ELSE IF Len(x) < Len(y) THEN -1
             ELSE CmpFrom(x, y, Len(x))

\* the limbs of x * y from the k-th on, c the carry into the k-th; xp is x
\* followed by five zero limbs, yp is y between four and five zero limbs
RECURSIVE MulCarry(_, _, _, _, _)
MulCarry(xp, yp, k, n, c) ==
    IF k > n THEN (IF c = 0 THEN <<>> ELSE <<c>>)
    ELSE LET s == xp[1] * yp[k + 4] + xp[2] * yp[k + 3] + xp[3] * yp[k + 2]
                  + xp[4] * yp[k + 1] + xp[5] * yp[k] + c
         IN  <<s % Base>> \o MulCarry(xp, yp, k + 1, n, s \div Base)

\* x * y for x of at most five limbs (x < 2^70)
Mul(x, y) ==
    IF x = <<>> \/ y = <<>> THEN <<>>
    ELSE Norm(MulCarry(x \o <<0, 0, 0, 0, 0>>, <<0, 0, 0, 0>> \o y \o <<0, 0, 0, 0, 0>>,
                       1, Len(x) + Len(y), 0))

\* the number k < 2^31
Small(k) == Norm(<<k % Base, (k \div Base) % Base, k \div (Base * Base)>>)

\* the number whose decimal digits are those of a, then six of b, then six of c
Million == Small(1000000)
Decimal(a, b, c) == Add(Mul(Add(Mul(Small(a), Million), Small(b)), Million), Small(c))

\* 2^k
Pow2(k) == [i \in 1..(k \div LimbBits) |-> 0] \o <<2 ^ (k % LimbBits)>>

\* bit i (from 0) of x
Bit(x, i) == (Limb(x, i \div LimbBits + 1) \div (2 ^ (i % LimbBits))) % 2

RECURSIVE LimbLen(_)
LimbLen(b) == IF b = 0 THEN 0 ELSE 1 + LimbLen(b \div 2)

\* number of significant bits of x
BitLen(x) == IF x = <<>> THEN 0 ELSE LimbBits * (Len(x) - 1) + LimbLen(x[Len(x)])

\* x with its k low bits cleared
ClearLow(x, k) ==
    Norm([i \in 1..Len(x) |->
            IF i <= k \div LimbBits THEN 0
            ELSE IF i = k \div LimbBits + 1 THEN x[i] - (x[i] % (2 ^ (k % LimbBits)))
            ELSE x[i]])

\* x modulo 2^k
LowBits(x, k) ==
    Norm([i \in 1..(IF Len(x) <= k \div LimbBits THEN Len(x) ELSE k \div LimbBits + 1) |->
            IF i <= k \div LimbBits THEN x[i] ELSE x[i] % (2 ^ (k % LimbBits))])

\* some bit of x below bit k is set
AnyLow(x, k) == LowBits(x, k) # <<>>

\* round x to the 53 significant bits of a double: to nearest, ties to even
RoundAt(x, k) ==
    IF k <= 0 THEN x
    ELSE IF Bit(x, k - 1) = 1 /\ (AnyLow(x, k - 1) \/ Bit(x, k) = 1)
         THEN Add(ClearLow(x, k), Pow2(k))
         ELSE ClearLow(x, k)
RoundNearestEven(x) == RoundAt(x, BitLen(x) - 53)

----------------------------------------------------------------------------
(* Doubles.  A non-negative double is [num, exp], the value num / 2^exp;   *)
(* a signed one has a field neg as well.                                   *)

\* (double) x for an unsigned 64-bit x: an integer-valued double
U64ToDouble(x) == RoundNearestEven(x)

\* a / b for integer-valued doubles a, b with b a power of two (exact)
DoubleDiv(a, b) == [num |-> a, exp |-> BitLen(b) - 1]

One(e) == Pow2(e)

\* u >= 1.0, u < 0.5, u = 0.0 for a non-negative double u
GeOne(u) == Cmp(u.num, One(u.exp)) >= 0
LtHalf(u) == Cmp(Add(u.num, u.num), One(u.exp)) < 0
IsZero(u) == u.num = <<>>

\* d - one over 2^e, rounded, for integers d and one
SignedDiff(d, one, e) ==
    IF Cmp(d, one) >= 0
    THEN [neg |-> FALSE, num |-> RoundNearestEven(Sub(d, one)), exp |-> e]
    ELSE [neg |-> TRUE, num |-> RoundNearestEven(Sub(one, d)), exp |-> e]

\* 2*u - 1: the doubling is exact, the subtraction rounds
TwoUMinusOne(u) == SignedDiff(Add(u.num, u.num), One(u.exp), u.exp)

\* x*x, rounded
Square(x) == [num |-> RoundNearestEven(Mul(x.num, x.num)), exp |-> x.exp + x.exp]

\* a + b for non-negative doubles of one exponent, rounded
DoubleAdd(a, b) == [num |-> RoundNearestEven(Add(a.num, b.num)), exp |-> a.exp]

----------------------------------------------------------------------------
(* Build configuration and bounds.                                         *)

\* largest batch size requested, and how far below zero requests go
MaxN == 3
MaxNeg == 1
\* calls made on the engines after their initialisation
MaxCalls == 2

BatchSizes == (0 - MaxNeg)..MaxN
\* largest batch size requested where two engines are in use
MaxPairN == 2
PairSizes == 0..MaxPairN
\* where workers share the fallback: calls each worker makes, and drand48()
\* calls made in all
MaxWorkerCalls == 1
MaxDraws == 4

\* the caller's buffer r[0..MaxN]: one element more than any request fills
BufIdx == 0..MaxN
Unwritten == [kind |-> "unwritten"]
FreshBuf == [i \in BufIdx |-> Unwritten]
\* the indices a request for n elements owns
Below(n) == {i \in BufIdx : i < n}

\* a % b as C computes it (truncating towards zero), b > 0
CRem(a, b) == IF a >= 0 THEN a % b ELSE 0 - ((0 - a) % b)

----------------------------------------------------------------------------
(* The linear-congruential engine (RANDOM_LCG).                            *)

UINT64_MAX == Sub(Pow2(64), <<1>>)

\* unsigned 64-bit arithmetic wraps
Wrap64(x) == LowBits(x, 64)

\* uint64_t a = 2862933555777941757; uint64_t b = 3037000493
LcgMultiplierEven == Decimal(2862933, 555777, 941758)
LcgA == Decimal(2862933, 555777, 941757)
LcgB == Decimal(0, 3037, 493)

\* random_lcg_init(rdata, seed): the new value of rdata->r
LcgInitDraws(seed) == Wrap64(Add(Mul(LcgA, seed), LcgB))
random_lcg_init(seed) == seed

\* random_lcg_integer(rdata): the new value of rdata->r, which is also the
\* value returned
random_lcg_integer(r) == Wrap64(Add(Mul(LcgA, r), LcgB))

\* UINT64_MAX as the double it is converted to before the division
UINT64_MAX_DOUBLE == U64ToDouble(UINT64_MAX)

\* a double in [0, 1] as the functions hand it out
AsUniform(d) == [kind |-> "uniform", num |-> d.num, exp |-> d.exp]

\* (double) random_lcg_integer(rdata) / UINT64_MAX
LcgToUniform(x) == AsUniform(DoubleDiv(U64ToDouble(x), UINT64_MAX_DOUBLE))

\* what a batch function leaves: r the generator's word, out the buffer r[]
LoopResult(st) == [r |-> st.r, out |-> st.out]

\* what a function does that runs the batch of one into its local double r
ScalarResult(res) == [r |-> res.r, ret |-> res.out[0], out |-> res.out]

\* r[i] = (double) random_lcg_integer(rdata) / UINT64_MAX; r1 the new word
LcgUniformStepFirstOnly(st, r1) ==
    [r |-> r1, i |-> st.i + 1, out |-> [st.out EXCEPT ![0] = LcgToUniform(r1)]]
lcg_uniform_step(st, r1) ==
    [r |-> r1, i |-> st.i + 1, out |-> [st.out EXCEPT ![st.i] = LcgToUniform(r1)]]

\* for(int i = 0; i < n; i++) {...}; st holds rdata->r, i and r[]
RECURSIVE lcg_uniform_loop(_, _)
lcg_uniform_loop(n, st) ==
    IF st.i < n
    THEN lcg_uniform_loop(n, lcg_uniform_step(st, random_lcg_integer(st.r)))
    ELSE st

\* random_lcg_uniform_simd(rdata, n, r): the engine word and the buffer after it
LcgUniformAtLeastOnce(r, n, out) ==
    LoopResult(lcg_uniform_loop(IF n < 1 THEN 1 ELSE n, [r |-> r, i |-> 0, out |-> out]))
random_lcg_uniform_simd(r, n, out) ==
    LoopResult(lcg_uniform_loop(n, [r |-> r, i |-> 0, out |-> out]))

\* random_lcg_uniform(rdata): the batch of one, into the local double r
LcgUniformDrawsTwice(r) ==
    ScalarResult(random_lcg_uniform_simd(random_lcg_integer(r), 1, FreshBuf))
random_lcg_uniform(r) == ScalarResult(random_lcg_uniform_simd(r, 1, FreshBuf))

\* w = x1*x1 + x2*x2 in doubles
PolarW(x1, x2) == DoubleAdd(Square(x1), Square(x2))

\* one pass of the body of while (w >= 1.0) done: the generator's word r after
\* it, x1, x2 and w
PolarTry(r, x1, x2) == [r |-> r, x1 |-> x1, x2 |-> x2, w |-> PolarW(x1, x2)]

\* the deviates of the geometric form of the pair p = [x1, x2, w] the loop
\* was left with: x1 * sqrt(-2*log(w)/w) and x2 * sqrt(-2*log(w)/w), kept as
\* terms
GeoFirst(p) ==
    [kind |-> "normal", form |-> "x1*sqrt(-2*log(w)/w)", x1 |-> p.x1, x2 |-> p.x2,
     w |-> p.w]
GeoSecond(p) ==
    [kind |-> "normal", form |-> "x2*sqrt(-2*log(w)/w)", x1 |-> p.x1, x2 |-> p.x2,
     w |-> p.w]

\* the deviates of the common (trigonometric) form of the uniforms x1, x2, with
\* w = sqrt(-2*log(x1)) and s = cos(2*pi*x2), kept as terms
ComFirst(x1, x2) == [kind |-> "normal", form |-> "w*s", x1 |-> x1, x2 |-> x2]
ComSecondLeHalf(x1, x2) ==
    IF Cmp(Add(x2.num, x2.num), One(x2.exp)) <= 0
    THEN [kind |-> "normal", form |-> "w*sqrt(1-s*s)", x1 |-> x1, x2 |-> x2]
    ELSE [kind |-> "normal", form |-> "-w*sqrt(1-s*s)", x1 |-> x1, x2 |-> x2]
ComSecond(x1, x2) ==
    IF LtHalf(x2)
    THEN [kind |-> "normal", form |-> "w*sqrt(1-s*s)", x1 |-> x1, x2 |-> x2]
    ELSE [kind |-> "normal", form |-> "-w*sqrt(1-s*s)", x1 |-> x1, x2 |-> x2]

\* int isEven = (n+1) % 2
IsEven(n) == CRem(n + 1, 2)

\* the condition under which r[i+1] is written
SecondIsWritten(i, n, isEven) == (i < n - 2) \/ (isEven > 0)

\* r[i] = d1; if((i < n-2) || (isEven > 0)) r[i+1] = d2
WritePair(out, i, n, isEven, d1, d2) ==
    IF SecondIsWritten(i, n, isEven)
    THEN [out EXCEPT ![i] = d1, ![i + 1] = d2]
    ELSE [out EXCEPT ![i] = d1]

\* one pass of the body of while (w >= 1.0): x1 = 2*random_lcg_uniform(rdata)-1
\* from the draw a, x2 likewise from the draw b that follows, w computed
lcg_polar_x2(a, b) == PolarTry(b.r, TwoUMinusOne(a.ret), TwoUMinusOne(b.ret))
lcg_polar_x1(a) == lcg_polar_x2(a, random_lcg_uniform(a.r))
lcg_polar_try(r) == lcg_polar_x1(random_lcg_uniform(r))

\* the rejection loop of the geometric form: w = 2.0; while (w >= 1.0) {...}
RECURSIVE lcg_polar_loop(_)
lcg_polar_loop(p) == IF GeOne(p.w) THEN lcg_polar_loop(lcg_polar_try(p.r)) ELSE p

\* the pairs the passes of that loop test one after the other, p the first of
\* them, k passes at most
RECURSIVE lcg_polar_passes(_, _)
lcg_polar_passes(p, k) ==
    IF GeOne(p.w) /\ k > 1
    THEN <<p>> \o lcg_polar_passes(lcg_polar_try(p.r), k - 1)
    ELSE <<p>>

\* the rest of an iteration of the geometric form, left with the pair p
geo_step(st, n, isEven, p) ==
    [r |-> p.r, i |-> st.i + 2,
     out |-> WritePair(st.out, st.i, n, isEven, GeoFirst(p), GeoSecond(p))]

\* an iteration of the common form: x1 = random_lcg_uniform(rdata), the draw a,
\* x2 likewise the draw b that follows
lcg_com_x2(st, n, isEven, a, b) ==
    [r |-> b.r, i |-> st.i + 2,
     out |-> WritePair(st.out, st.i, n, isEven, ComFirst(a.ret, b.ret),
                       ComSecond(a.ret, b.ret))]
LcgComSkipsDiscarded(st, n, isEven, a) ==
    IF SecondIsWritten(st.i, n, isEven)
    THEN lcg_com_x2(st, n, isEven, a, random_lcg_uniform(a.r))
    ELSE lcg_com_x2(st, n, isEven, a, a)
lcg_com_x1(st, n, isEven, a) == lcg_com_x2(st, n, isEven, a, random_lcg_uniform(a.r))

\* for(int i = 0; i < n; i = i+2) {...}; st holds rdata->r, i and r[]
RECURSIVE lcg_normal_loop(_, _, _, _)
lcg_normal_loop(geo, n, isEven, st) ==
    IF st.i >= n THEN st
    ELSE IF geo = 1
    THEN lcg_normal_loop(geo, n, isEven,
             geo_step(st, n, isEven, lcg_polar_loop(lcg_polar_try(st.r))))
    ELSE lcg_normal_loop(geo, n, isEven,
             lcg_com_x1(st, n, isEven, random_lcg_uniform(st.r)))

\* random_lcg_normal_simd(rdata, n, r) under A5_CCOL_USE_GEOBM = geo
random_lcg_normal_simd(geo, r, n, out) ==
    LoopResult(lcg_normal_loop(geo, n, IsEven(n), [r |-> r, i |-> 0, out |-> out]))

\* random_lcg_normal(rdata): the batch of one
LcgNormalDrawsFirst(geo, r) ==
    ScalarResult(random_lcg_normal_simd(geo, random_lcg_integer(r), 1, FreshBuf))
random_lcg_normal(geo, r) == ScalarResult(random_lcg_normal_simd(geo, r, 1, FreshBuf))

----------------------------------------------------------------------------
(* The fallback (no RNG library defined): drand48 of the C library.  The    *)
(* common form of random_drand48_normal_simd calls drand48(rdata) with no   *)
(* rdata in scope, so this part of the file builds only with                *)
(* A5_CCOL_USE_GEOBM = 1.                                                   *)

\* drand48(): the process-wide 48-bit word X becomes
\* (0x5DEECE66D * X + 0xB) mod 2^48 and the value is X / 2^48
Drand48A == Decimal(0, 25214, 903917)
Drand48C == Small(11)
drand48_iterate(x) == LowBits(Add(Mul(Drand48A, x), Drand48C), 48)
Drand48Value(x) == [kind |-> "uniform", num |-> x, exp |-> 48]

\* r[i] = drand48(); x1 the new word
drand48_uniform_step(st, x1) ==
    [r |-> x1, i |-> st.i + 1, out |-> [st.out EXCEPT ![st.i] = Drand48Value(x1)]]

\* for(int i = 0; i < n; i++) {...}; st holds X (as r), i and r[]
RECURSIVE drand48_uniform_loop(_, _)
drand48_uniform_loop(n, st) ==
    IF st.i < n
    THEN drand48_uniform_loop(n, drand48_uniform_step(st, drand48_iterate(st.r)))
    ELSE st

\* random_drand48_uniform_simd(n, r): X and the buffer after it
random_drand48_uniform_simd(x, n, out) ==
    LoopResult(drand48_uniform_loop(n, [r |-> x, i |-> 0, out |-> out]))

\* one pass of the body of while (w >= 1.0): x1 = 2*drand48()-1 from the word
\* a, x2 likewise from the word b that follows, w computed
drand48_polar_x2(a, b) ==
    PolarTry(b, TwoUMinusOne(Drand48Value(a)), TwoUMinusOne(Drand48Value(b)))
drand48_polar_x1(a) == drand48_polar_x2(a, drand48_iterate(a))
drand48_polar_try(x) == drand48_polar_x1(drand48_iterate(x))

RECURSIVE drand48_polar_loop(_)
drand48_polar_loop(p) ==
    IF GeOne(p.w) THEN drand48_polar_loop(drand48_polar_try(p.r)) ELSE p

\* the pairs the passes of that loop test one after the other, p the first of
\* them, k passes at most
RECURSIVE drand48_polar_passes(_, _)
drand48_polar_passes(p, k) ==
    IF GeOne(p.w) /\ k > 1
    THEN <<p>> \o drand48_polar_passes(drand48_polar_try(p.r), k - 1)
    ELSE <<p>>

\* for(int i = 0; i < n; i = i+2) {...} of the geometric form
RECURSIVE drand48_normal_loop(_, _, _)
drand48_normal_loop(n, isEven, st) ==
    IF st.i >= n THEN st
    ELSE drand48_normal_loop(n, isEven,
             geo_step(st, n, isEven, drand48_polar_loop(drand48_polar_try(st.r))))

\* random_drand48_normal_simd(n, r)
random_drand48_normal_simd(x, n, out) ==
    LoopResult(drand48_normal_loop(n, IsEven(n), [r |-> x, i |-> 0, out |-> out]))

\* random_drand48_normal(): the batch of one
random_drand48_normal(x) == ScalarResult(random_drand48_normal_simd(x, 1, FreshBuf))

----------------------------------------------------------------------------
(* The accelerator path of the fallback (GPU defined).                      *)

\* the doubles curandGenerateUniformDouble delivers, from (0, 1]: 1/2, 3/4, 1
CurandValues == {[kind |-> "uniform", num |-> Small(k), exp |-> 2] : k \in {2, 3, 4}}

\* what a read of a double that no call has written may give
Indeterminate == CurandValues

\* data->r_cuda[0..MaxN] after curandGenerateUniformDouble(gen, r_cuda, n) put
\* vals there; entries from cap on lie beyond the allocation
CudaGenerate(buf, cap, n, vals) ==
    [i \in BufIdx |-> IF i < n THEN vals[i] ELSE IF i < cap THEN buf[i] ELSE Unwritten]

\* data->r_cuda[i] as the transform reads it
CudaRead(buf, g, i) == IF buf[i] = Unwritten THEN g ELSE buf[i]

\* what the function does with the device, in program order: the call of
\* curandGenerateUniformDouble for n doubles, the read of data->r_cuda[i]
GenerateEvent(n) == [ev |-> "generate", at |-> n]
ReadEvent(i) == [ev |-> "read", at |-> i]

\* x1 = 2*data->r_cuda[i]-1; x2 = 2*data->r_cuda[i+1]-1;
PairReads(i) == <<ReadEvent(i), ReadEvent(i + 1)>>

\* an iteration with the pair p computed: the body of while (w >= 1.0) reads
\* the same two entries on every pass, so a pair with w >= 1.0 is never left
cuda_geo_step(st, n, isEven, p) ==
    IF GeOne(p.w) THEN [st EXCEPT !.status = "hangs", !.trace = @ \o PairReads(st.i)]
    ELSE [i |-> st.i + 2, status |-> st.status,
          trace |-> st.trace \o PairReads(st.i),
          out |-> WritePair(st.out, st.i, n, isEven, GeoFirst(p), GeoSecond(p))]

\* for(int i = 0; i < n; i = i+2) {...} of the geometric form; st holds i, r[],
\* whether the loop is still left and the events so far
RECURSIVE cuda_normal_loop(_, _, _, _, _)
cuda_normal_loop(buf, g, n, isEven, st) ==
    IF st.i >= n \/ st.status # "returned" THEN st
    ELSE cuda_normal_loop(buf, g, n, isEven,
             cuda_geo_step(st, n, isEven,
                 PolarTry(<<>>, TwoUMinusOne(CudaRead(buf, g, st.i)),
                          TwoUMinusOne(CudaRead(buf, g, st.i + 1)))))

\* one pass of the body of while (w >= 1.0) of iteration i: x1 and x2 from
\* r_cuda[i] and r_cuda[i+1]; no generator is called
cuda_polar_try(buf, g, i) ==
    PolarTry(<<>>, TwoUMinusOne(CudaRead(buf, g, i)),
             TwoUMinusOne(CudaRead(buf, g, i + 1)))

\* the pairs the passes of that loop test one after the other, k passes at
\* most: neither r_cuda nor i changes between them
RECURSIVE cuda_polar_passes(_, _, _, _)
cuda_polar_passes(buf, g, i, k) ==
    IF GeOne(cuda_polar_try(buf, g, i).w) /\ k > 1
    THEN <<cuda_polar_try(buf, g, i)>> \o cuda_polar_passes(buf, g, i, k - 1)
    ELSE <<cuda_polar_try(buf, g, i)>>

\* what the call leaves: r_cuda, r[] and whether it returned
CudaResult(buf, st) ==
    [buf |-> buf, out |-> st.out, status |-> st.status, trace |-> st.trace]

\* the transform of random_drand48_normal_cuda over the generated buffer,
\* after the events of trace
cuda_transform(buf, g, n, out, trace) ==
    CudaResult(buf, cuda_normal_loop(buf, g, n, IsEven(n),
                   [i |-> 0, status |-> "returned", trace |-> trace, out |-> out]))

\* random_drand48_normal_cuda(data, n, r): r_cuda and the buffer after it
random_drand48_normal_cuda(buf, cap, n, vals, g, out) ==
    cuda_transform(CudaGenerate(buf, cap, n, vals), g, n, out, <<GenerateEvent(n)>>)

----------------------------------------------------------------------------
(* State.                                                                  *)

VARIABLES
    defs,       \* the macros the file is compiled with (-D...)
    backend,    \* the part of the file that is compiled: "mkl", "gsl", "lcg",
                \* "drand48" (no RNG library defined) or "cuda" (none defined,
                \* and GPU)
    geobm,      \* A5_CCOL_USE_GEOBM of the build: 1 geometric form, 0 common form
    rdata,      \* rdata[e]: the field r of engine e's random_data
    xsubi,      \* the process-wide word X of drand48
    cuda,       \* cuda[e]: r_cuda and gen of worker e's random_data on the
                \* accelerator path
    plasma,     \* the latest call of the plasma loader and what it left
    wk,         \* wk[w]: how far worker w is in its call on the fallback
    drawn,      \* the drand48() calls completed, in the order they returned
    log,        \* log[e]: the calls made on engine e (by worker e), init first
    cur,        \* the engine of the latest call, 0 before any
    h5          \* the HDF5 file the scripts work on, the a5ls shell, and the
                \* latest step a script made

vars == <<defs, backend, geobm, rdata, xsubi, cuda, plasma, wk, drawn, log, cur, h5>>

Engines == {1, 2}

\* seeds: 1, the words whose successor is 2^64 - 1, 0 and 2^63, and the word
\* whose second successor is 2^63
SeedOne == Small(1)
SeedBeforeMax == Decimal(1161856, 439546, 75578)
SeedBeforeZero == Decimal(17295553, 536498, 714127)
SeedBeforeHalf == Decimal(8072181, 499643, 938319)
SeedTwoBeforeHalf == Decimal(7638326, 902063, 783178)
Seeds == {SeedOne, SeedBeforeMax, SeedBeforeZero, SeedBeforeHalf, SeedTwoBeforeHalf}
PairSeeds == {SeedOne, SeedBeforeMax}
\* 1 and 1 + 2^63: seeds that differ in the highest bit only
SeedOneHigh == Decimal(9223372, 36854, 775809)
TwinSeeds == {SeedOne, SeedOneHigh}

\* words of drand48: the one a process starts with (0x1234ABCD330E), and the
\* words whose successor is 2^48 - 1 and 2^47; the recurrence has full period,
\* so the stream passes through each of them
Drand48X0 == Decimal(20, 17429, 951246)
Drand48BeforeMax == Decimal(142, 368275, 371844)
Drand48BeforeHalf == Decimal(247, 785492, 720297)
Drand48Words == {Drand48X0, Drand48BeforeMax, Drand48BeforeHalf}

\* a call as the log keeps it: the operation, its argument (seed or n), the
\* generator's word before and after, the caller's buffer after it, the value
\* returned, and whether the call returned to its caller ("returned"), never
\* leaves a loop ("hangs") or ends the process ("faults")
Entry(op, seed, n, pre, post, out, ret) ==
    [op |-> op, seed |-> seed, n |-> n, pre |-> pre, post |-> post, out |-> out,
     ret |-> ret, status |-> "returned"]

InitOps == {"init", "cuda_init"}
\* random_lcg_init has been called on engine e
Initialised(e) ==
    /\ backend = "lcg" /\ log[e] # <<>>
    /\ log[e][Len(log[e])].status = "returned"
NCalls(e) == Cardinality({k \in 1..Len(log[e]) : log[e][k].op \notin InitOps})
Budget == NCalls(1) + NCalls(2) < MaxCalls
Last == log[cur][Len(log[cur])]
\* no call of worker e is still running or has ended the process
Alive(e) == IF log[e] = <<>> THEN TRUE ELSE log[e][Len(log[e])].status = "returned"

\* gen: whether curandCreateGenerator has made the generator, and its seed
NoCuda ==
    [ptr |-> "none", cap |-> 0, buf |-> FreshBuf,
     gen |-> [made |-> FALSE, seed |-> <<>>]]
NoPlasma == [fn |-> "none"]

\* a path in the HDF5 file is the sequence of names from the root: "/" is <<>>
Root == <<>>
\* the value of a missing attribute "active"
NoAttr == ""
\* a file with the root group only, no shell, and no step of a script yet
NoFile == [groups |-> {Root}, datasets |-> {}, active |-> NoAttr]
NoStep ==
    [tool |-> "none", input |-> "", arg |-> "", remove |-> FALSE, file |-> NoFile,
     group |-> Root]
NoH5 == [file |-> NoFile, sh |-> [status |-> "closed", group |-> Root], step |-> NoStep]
Idle == [pc |-> "idle"]

\* the macros that choose among the parts of the file
Macros == {"RANDOM_MKL", "RANDOM_GSL", "RANDOM_LCG", "GPU"}

\* #if defined(RANDOM_MKL) ... #elif defined(RANDOM_GSL) ... #elif
\* defined(RANDOM_LCG) ... #else ... #ifdef GPU: the part compiled under d
Compiled(d) ==
    IF "RANDOM_MKL" \in d THEN "mkl"
    ELSE IF "RANDOM_GSL" \in d THEN "gsl"
    ELSE IF "RANDOM_LCG" \in d THEN "lcg"
    ELSE IF "GPU" \in d THEN "cuda"
    ELSE "drand48"

\* a process of a build with one of the configurations D before any call
Start(D) ==
    /\ defs \in D
    /\ backend = Compiled(defs)
    /\ geobm \in {0, 1}
    /\ backend \in {"drand48", "cuda"} => geobm = 1
    /\ rdata = [e \in Engines |-> <<>>]
    /\ xsubi \in Drand48Words
    /\ backend \notin {"drand48", "cuda"} => xsubi = Drand48X0
    /\ cuda = [e \in Engines |-> NoCuda]
    /\ plasma = NoPlasma
    /\ wk = [w \in Engines |-> Idle]
    /\ drawn = <<>>
    /\ log = [e \in Engines |-> <<>>]
    /\ cur = 0
    /\ h5 = NoH5

Init == Start({{"RANDOM_LCG"}, {}})

\* the call ent of worker e enters the log
Note(e, ent) ==
    /\ log' = [log EXCEPT ![e] = Append(@, ent)]
    /\ cur' = e
    /\ UNCHANGED <<h5, defs, backend, geobm, plasma>>

\* the call ent made on engine e
RecordShared(e, ent) ==
    /\ rdata' = [rdata EXCEPT ![1] = ent.post]
    /\ Note(e, ent)
    /\ UNCHANGED <<xsubi, cuda, wk, drawn>>
Record(e, ent) ==
    /\ rdata' = [rdata EXCEPT ![e] = ent.post]
    /\ Note(e, ent)
    /\ UNCHANGED <<xsubi, cuda, wk, drawn>>

\* the call op that found the generator's word pre, with the result res
ScalarEntry(op, pre, res) == Entry(op, <<>>, 1, pre, res.r, res.out, res.ret)
BatchEntry(op, n, pre, res) == Entry(op, <<>>, n, pre, res.r, res.out, Unwritten)

\* random_lcg_init(rdata, seed)
LcgInit(e, seed) ==
    /\ backend = "lcg" /\ log[e] = <<>>
    /\ Record(e, Entry("init", seed, 0, rdata[e], random_lcg_init(seed),
                          FreshBuf, Unwritten))

\* double random_lcg_uniform(rdata)
LcgUniformShared(e) ==
    /\ Initialised(e) /\ Budget
    /\ RecordShared(e, ScalarEntry("uniform", rdata[1], random_lcg_uniform(rdata[1])))
LcgUniform(e) ==
    /\ Initialised(e) /\ Budget
    /\ Record(e, ScalarEntry("uniform", rdata[e], random_lcg_uniform(rdata[e])))

\* double random_lcg_normal(rdata)
LcgNormal(e) ==
    /\ Initialised(e) /\ Budget
    /\ Record(e, ScalarEntry("normal", rdata[e], random_lcg_normal(geobm, rdata[e])))

\* void random_lcg_uniform_simd(rdata, n, r)
LcgUniformSimd(e, n) ==
    /\ Initialised(e) /\ Budget
    /\ Record(e, BatchEntry("uniform_simd", n, rdata[e],
                            random_lcg_uniform_simd(rdata[e], n, FreshBuf)))

\* void random_lcg_normal_simd(rdata, n, r)
LcgNormalSimdShared(e, n) ==
    /\ Initialised(e) /\ Budget
    /\ RecordShared(e, BatchEntry("normal_simd", n, rdata[1],
                                  random_lcg_normal_simd(geobm, rdata[1], n, FreshBuf)))
LcgNormalSimd(e, n) ==
    /\ Initialised(e) /\ Budget
    /\ Record(e, BatchEntry("normal_simd", n, rdata[e],
                            random_lcg_normal_simd(geobm, rdata[e], n, FreshBuf)))

\* the calls an environment makes on the engines of E, seeding from S and
\* asking for batches of the sizes N
NextLcg(E, S, N) ==
    \/ \E e \in E, seed \in S : LcgInit(e, seed)
    \/ \E e \in E : LcgUniform(e)
    \/ \E e \in E : LcgNormal(e)
    \/ \E e \in E, n \in N : LcgUniformSimd(e, n)
    \/ \E e \in E, n \in N : LcgNormalSimd(e, n)

\* random_mkl_init or random_gsl_init has been called on engine e
LibInitialised(e, b) ==
    /\ backend = b /\ log[e] # <<>>
    /\ log[e][Len(log[e])].status = "returned"

\* rdata->r of the library engines: the stream vslNewStream made, or the
\* generator gsl_rng_alloc made, seeded with seed; the handle stays open until
\* the library is asked to release it
LibHandle(lib, seed) == [lib |-> lib, seed |-> seed, open |-> TRUE]

\* a deviate a library call delivers
LibValue(lib, kind) == [kind |-> kind, from |-> lib]

\* r[0..n) as a library call, or a loop of library calls, fills it
LibFill(lib, kind, n) == [i \in BufIdx |-> IF i < n THEN LibValue(lib, kind) ELSE Unwritten]

\* a scalar call and a batch call on the library engine e
LibScalar(e, lib, op, kind) ==
    Record(e, Entry(op, <<>>, 1, rdata[e], rdata[e], LibFill(lib, kind, 1),
                    LibValue(lib, kind)))
LibBatch(e, lib, op, kind, n) ==
    Record(e, Entry(op, <<>>, n, rdata[e], rdata[e], LibFill(lib, kind, n), Unwritten))

\* void random_mkl_init(rdata, seed)
MklInit(e, seed) ==
    /\ backend = "mkl" /\ log[e] = <<>>
    /\ Record(e, Entry("init", seed, 0, rdata[e], LibHandle("mkl", seed), FreshBuf,
                       Unwritten))

\* double random_mkl_uniform(rdata), double random_mkl_normal(rdata)
MklUniform(e) ==
    LibInitialised(e, "mkl") /\ Budget /\ LibScalar(e, "mkl", "uniform", "uniform")
MklNormal(e) ==
    LibInitialised(e, "mkl") /\ Budget /\ LibScalar(e, "mkl", "normal", "normal")

\* void random_mkl_uniform_simd(rdata, n, r), random_mkl_normal_simd(rdata, n, r)
MklUniformSimd(e, n) ==
    LibInitialised(e, "mkl") /\ Budget /\ LibBatch(e, "mkl", "uniform_simd", "uniform", n)
MklNormalSimd(e, n) ==
    LibInitialised(e, "mkl") /\ Budget /\ LibBatch(e, "mkl", "normal_simd", "normal", n)

\* void random_gsl_init(rdata, seed)
GslInit(e, seed) ==
    /\ backend = "gsl" /\ log[e] = <<>>
    /\ Record(e, Entry("init", seed, 0, rdata[e], LibHandle("gsl", seed), FreshBuf,
                       Unwritten))

\* double random_gsl_uniform(rdata), double random_gsl_normal(rdata)
GslUniform(e) ==
    LibInitialised(e, "gsl") /\ Budget /\ LibScalar(e, "gsl", "uniform", "uniform")
GslNormal(e) ==
    LibInitialised(e, "gsl") /\ Budget /\ LibScalar(e, "gsl", "normal", "normal")

\* void random_gsl_uniform_simd(rdata, n, r), random_gsl_normal_simd(rdata, n, r)
GslUniformSimd(e, n) ==
    LibInitialised(e, "gsl") /\ Budget /\ LibBatch(e, "gsl", "uniform_simd", "uniform", n)
GslNormalSimd(e, n) ==
    LibInitialised(e, "gsl") /\ Budget /\ LibBatch(e, "gsl", "normal_simd", "normal", n)

\* the calls an environment makes on the library engines of E
NextLib(E, S, N) ==
    \/ \E e \in E, seed \in S : MklInit(e, seed)
    \/ \E e \in E : MklUniform(e)
    \/ \E e \in E : MklNormal(e)
    \/ \E e \in E, n \in N : MklUniformSimd(e, n)
    \/ \E e \in E, n \in N : MklNormalSimd(e, n)
    \/ \E e \in E, seed \in S : GslInit(e, seed)
    \/ \E e \in E : GslUniform(e)
    \/ \E e \in E : GslNormal(e)
    \/ \E e \in E, n \in N : GslUniformSimd(e, n)
    \/ \E e \in E, n \in N : GslNormalSimd(e, n)

\* the call ent of worker w on the fallback, no other worker drawing meanwhile
Drand48Record(w, ent) ==
    /\ xsubi' = ent.post
    /\ Note(w, ent)
    /\ UNCHANGED <<rdata, cuda, wk, drawn>>

\* void random_drand48_uniform_simd(n, r)
Drand48UniformSimd(n) ==
    /\ backend \in {"drand48", "cuda"} /\ Budget /\ Alive(1)
    /\ Drand48Record(1, BatchEntry("uniform_simd", n, xsubi,
                                   random_drand48_uniform_simd(xsubi, n, FreshBuf)))

\* void random_drand48_normal_simd(n, r)
Drand48NormalSimd(n) ==
    /\ backend \in {"drand48", "cuda"} /\ Budget /\ Alive(1)
    /\ Drand48Record(1, BatchEntry("normal_simd", n, xsubi,
                                   random_drand48_normal_simd(xsubi, n, FreshBuf)))

\* double random_drand48_normal()
Drand48Normal ==
    /\ backend \in {"drand48", "cuda"} /\ Budget /\ Alive(1)
    /\ Drand48Record(1, ScalarEntry("normal", xsubi, random_drand48_normal(xsubi)))

\* the seed random_drand48_normal_cuda_init gives the device generator
CurandSeed == Small(1234)

\* void random_drand48_normal_cuda_init(data, n), called by worker e, which
\* holds the seed the driver gave it; the function has no parameter for it.
\* malloc gives the buffer of n doubles, or NULL, and the result is stored
\* unchecked; the generator is created and seeded with 1234ULL
CudaInit(e, seed, n) ==
    /\ backend = "cuda" /\ cuda[e].ptr = "none"
    /\ \E ptr \in {"heap", "null"} :
          /\ cuda' = [cuda EXCEPT ![e] =
                          [ptr |-> ptr, cap |-> IF ptr = "heap" THEN n ELSE 0,
                           buf |-> FreshBuf,
                           gen |-> [made |-> TRUE, seed |-> CurandSeed]]]
          /\ Note(e, Entry("cuda_init", seed, n, cuda[e].buf, FreshBuf, FreshBuf,
                           Unwritten))
    /\ UNCHANGED <<rdata, xsubi, wk, drawn>>

\* the call on the accelerator path that found r_cuda as pre, with the result res
CudaEntry(n, pre, res) ==
    [op |-> "normal_cuda", seed |-> <<>>, n |-> n, pre |-> pre, post |-> res.buf,
     out |-> res.out, ret |-> Unwritten, status |-> res.status,
     trace |-> res.trace]
CudaRecord(e, ent) ==
    /\ cuda' = [cuda EXCEPT ![e].buf = ent.post]
    /\ Note(e, ent)
    /\ UNCHANGED <<rdata, xsubi, wk, drawn>>

\* void random_drand48_normal_cuda(data, n, r) within the capacity: the device
\* call stores any n doubles; a read of an entry no call has stored gives g
CudaNormal(e, n) ==
    /\ backend = "cuda" /\ cuda[e].ptr = "heap" /\ n <= cuda[e].cap
    /\ Budget /\ Alive(e)
    /\ \E vals \in [Below(n) -> CurandValues], g \in Indeterminate :
          CudaRecord(e, CudaEntry(n, cuda[e].buf,
              random_drand48_normal_cuda(cuda[e].buf, cuda[e].cap, n, vals, g,
                                         FreshBuf)))

\* the same call after malloc gave NULL: the first read of r_cuda[i] is a read
\* through the null pointer
CudaNormalNull(e, n) ==
    /\ backend = "cuda" /\ cuda[e].ptr = "null" /\ Budget /\ Alive(e)
    /\ Note(e, CudaEntry(n, cuda[e].buf,
                 [buf |-> cuda[e].buf, out |-> FreshBuf,
                  status |-> IF n > 0 THEN "faults" ELSE "returned",
                  trace |-> <<GenerateEvent(n)>>
                                \o (IF n > 0 THEN <<ReadEvent(0)>> ELSE <<>>)]))
    /\ UNCHANGED <<rdata, xsubi, cuda, wk, drawn>>

\* the calls one worker makes on the fallback
NextFallback(N) ==
    \/ \E n \in N : Drand48UniformSimd(n)
    \/ \E n \in N : Drand48NormalSimd(n)
    \/ Drand48Normal

\* the calls one worker makes on the accelerator path
NextCuda(E, S, N) ==
    \/ \E e \in E, seed \in S, n \in N \ {0} : CudaInit(e, seed, n)
    \/ \E e \in E, n \in N : CudaNormal(e, n)
    \/ \E e \in E, n \in N : CudaNormalNull(e, n)

\* one worker, with its engine where the build has engines
Next ==
    \/ NextLcg({1}, Seeds, BatchSizes)
    \/ NextFallback(BatchSizes)

Spec == Init /\ [][Next]_vars

\* one worker of the build with GPU defined
InitCuda == Start({{"GPU"}})
NextGpu ==
    \/ NextFallback(PairSizes)
    \/ NextCuda({1}, {SeedOne}, 0..MaxN)

SpecCuda == InitCuda /\ [][NextGpu]_vars

\* two workers of the build with GPU defined, each with its own random_data
NextCudaPair == NextCuda(Engines, PairSeeds, PairSizes)

SpecCudaPair == InitCuda /\ [][NextCudaPair]_vars

\* worker e is done with its engine and ends: the file has no function that
\* releases rdata->r, data->r_cuda or data->gen, so the worker has none to
\* call and what its init acquired stays as it is
WorkerExit(e) ==
    /\ log[e] # <<>> /\ Alive(e)
    /\ Note(e, [Entry("exit", <<>>, 0, <<>>, <<>>, FreshBuf, Unwritten)
                 EXCEPT !.status = "ended"])
    /\ UNCHANGED <<rdata, xsubi, cuda, wk, drawn>>

\* one worker of a build under any set of the macros
InitBuild == Start(SUBSET Macros)
NextBuild ==
    \/ WorkerExit(1)
    \/ NextLib({1}, {SeedOne}, PairSizes)
    \/ NextLcg({1}, {SeedOne}, PairSizes)
    \/ NextFallback(PairSizes)
    \/ NextCuda({1}, {SeedOne}, PairSizes)

SpecBuild == InitBuild /\ [][NextBuild]_vars

\* two workers, each with its own engine
InitPair == Start({{"RANDOM_LCG"}})
NextPair == NextLcg(Engines, PairSeeds, PairSizes)

SpecPair == InitPair /\ [][NextPair]_vars

\* two workers whose seeds are 1 and 1 + 2^63
InitTwins == Start({{"RANDOM_LCG"}})
NextTwins == NextLcg(Engines, TwinSeeds, PairSizes)

SpecTwins == InitTwins /\ [][NextTwins]_vars

----------------------------------------------------------------------------
(* Several workers on the fallback.  drand48() keeps its word X in static   *)
(* storage and takes no lock: a call reads X and later stores the           *)
(* successor, and the calls of other workers fall in between.               *)

WorkerOps == {"uniform_simd", "normal_simd", "normal"}

\* the pair p of worker w's call c tested: another pass, or r[i], r[i+1]
\* written
WorkerPair(c, p) ==
    IF GeOne(p.w) THEN [c EXCEPT !.x1 = Unwritten]
    ELSE [c EXCEPT !.x1 = Unwritten, !.i = c.i + 2,
                   !.out = WritePair(c.out, c.i, c.n, IsEven(c.n), GeoFirst(p),
                                     GeoSecond(p))]

\* the loop of a worker's call c after drand48() returned v to it: r[i] = v in
\* random_drand48_uniform_simd; in random_drand48_normal_simd v is kept for x1,
\* or is the one for x2 and the pair is tested
WorkerTakes(c, v) ==
    IF c.op = "uniform_simd"
    THEN [c EXCEPT !.out = [c.out EXCEPT ![c.i] = v], !.i = c.i + 1]
    ELSE IF c.x1 = Unwritten THEN [c EXCEPT !.x1 = v]
    ELSE WorkerPair(c, PolarTry(<<>>, TwoUMinusOne(c.x1), TwoUMinusOne(v)))

\* worker w calls random_drand48_uniform_simd(n, r), random_drand48_normal_simd
\* (n, r) or random_drand48_normal(), and reaches the loop's first drand48(),
\* or returns at once when the loop has nothing to do
WorkerCall(w, op, n) ==
    /\ backend = "drand48" /\ wk[w].pc = "idle" /\ Len(log[w]) < MaxWorkerCalls
    /\ op = "normal" => n = 1
    /\ IF n > 0
       THEN /\ wk' = [wk EXCEPT ![w] = [pc |-> "run", op |-> op, n |-> n, i |-> 0,
                                        x1 |-> Unwritten, out |-> FreshBuf,
                                        pre |-> xsubi, tmp |-> <<>>]]
            /\ UNCHANGED <<log, cur>>
       ELSE /\ Note(w, Entry(op, <<>>, n, xsubi, xsubi, FreshBuf, Unwritten))
            /\ UNCHANGED wk
    /\ UNCHANGED <<h5, defs, backend, geobm, plasma, rdata, xsubi, cuda, drawn>>

\* drand48() of worker w reads X
WorkerLoad(w) ==
    /\ wk[w].pc = "run" /\ Len(drawn) < MaxDraws
    /\ wk' = [wk EXCEPT ![w].pc = "loaded", ![w].tmp = xsubi]
    /\ UNCHANGED <<h5, defs, backend, geobm, plasma, rdata, xsubi, cuda, drawn, log, cur>>

\* drand48() of worker w has stored x and returned it, which made c of the
\* worker's call: the loop goes on to its next drand48(), or the call returns
WorkerGoesOn(w, x, c) ==
    /\ xsubi' = x
    /\ drawn' = Append(drawn, [w |-> w, x |-> x])
    /\ IF c.i >= c.n
       THEN /\ wk' = [wk EXCEPT ![w] = Idle]
            /\ Note(w, Entry(c.op, <<>>, c.n, c.pre, x, c.out,
                             IF c.op = "normal" THEN c.out[0] ELSE Unwritten))
       ELSE /\ wk' = [wk EXCEPT ![w] = [c EXCEPT !.pc = "run"]]
            /\ UNCHANGED <<log, cur>>
    /\ UNCHANGED <<h5, defs, backend, geobm, plasma, rdata, cuda>>
WorkerStores(w, x) == WorkerGoesOn(w, x, WorkerTakes(wk[w], Drand48Value(x)))

\* drand48() of worker w stores the successor of the X it read and returns it
WorkerStore(w) ==
    /\ wk[w].pc = "loaded"
    /\ WorkerStores(w, drand48_iterate(wk[w].tmp))

InitWorkers == Start({{}})

NextWorkers ==
    \/ \E w \in Engines, op \in WorkerOps, n \in PairSizes : WorkerCall(w, op, n)
    \/ \E w \in Engines : WorkerLoad(w)
    \/ \E w \in Engines : WorkerStore(w)

SpecWorkers == InitWorkers /\ [][NextWorkers]_vars

----------------------------------------------------------------------------
(* The pair loop of random_lcg_normal_simd run data-parallel, as            *)
(* GPU_PARALLEL_LOOP_ALL_LEVELS asks: the iterations i = 0 and i = 2 run as *)
(* two lanes on the one engine.  rdata->r is reached through the pointer    *)
(* and is shared; x1, x2, w and s are taken as private to each lane.        *)

\* the iteration lane l runs
LaneIndex(l) == 2 * (l - 1)

\* random_lcg_normal_simd(rdata, n, r) is called on engine 1 and the lanes
\* whose iteration lies below n start
ParallelCall(n) ==
    /\ Initialised(1) /\ NCalls(1) < MaxWorkerCalls
    /\ \A l \in Engines : wk[l].pc = "idle"
    /\ wk' = [l \in Engines |->
                 [pc |-> IF LaneIndex(l) < n THEN "run" ELSE "done", n |-> n,
                  i |-> LaneIndex(l), x1 |-> Unwritten, tmp |-> <<>>,
                  pre |-> rdata[1], out |-> FreshBuf]]
    /\ UNCHANGED <<h5, defs, backend, geobm, plasma, rdata, xsubi, cuda, drawn, log, cur>>

\* random_lcg_integer of lane l reads rdata->r
LaneLoad(l) ==
    /\ backend = "lcg" /\ wk[l].pc = "run" /\ Len(drawn) < MaxDraws
    /\ wk' = [wk EXCEPT ![l].pc = "loaded", ![l].tmp = rdata[1]]
    /\ UNCHANGED <<h5, defs, backend, geobm, plasma, rdata, xsubi, cuda, drawn, log, cur>>

\* the pair of lane l's iteration c is complete: the geometric form tests it
\* and draws again or writes; the common form writes
LanePair(c, x2) ==
    IF geobm = 1 /\ GeOne(PolarW(TwoUMinusOne(c.x1), TwoUMinusOne(x2)))
    THEN [c EXCEPT !.pc = "run", !.x1 = Unwritten]
    ELSE IF geobm = 1
    THEN [c EXCEPT !.pc = "done", !.x1 = Unwritten,
                   !.out = WritePair(c.out, c.i, c.n, IsEven(c.n),
                               GeoFirst(PolarTry(<<>>, TwoUMinusOne(c.x1),
                                                 TwoUMinusOne(x2))),
                               GeoSecond(PolarTry(<<>>, TwoUMinusOne(c.x1),
                                                  TwoUMinusOne(x2))))]
    ELSE [c EXCEPT !.pc = "done", !.x1 = Unwritten,
                   !.out = WritePair(c.out, c.i, c.n, IsEven(c.n),
                                     ComFirst(c.x1, x2), ComSecond(c.x1, x2))]

\* the iteration c after random_lcg_uniform returned v to it: v is x1, or is
\* x2 and the pair is complete
LaneTakes(c, v) ==
    IF c.x1 = Unwritten THEN [c EXCEPT !.pc = "run", !.x1 = v] ELSE LanePair(c, v)

\* random_lcg_integer of lane l stores the successor of the word it read and
\* returns it
LaneStore(l) ==
    /\ backend = "lcg" /\ wk[l].pc = "loaded"
    /\ rdata' = [rdata EXCEPT ![1] = random_lcg_integer(wk[l].tmp)]
    /\ drawn' = Append(drawn, [w |-> l, x |-> random_lcg_integer(wk[l].tmp)])
    /\ wk' = [wk EXCEPT ![l] =
                  LaneTakes(wk[l], LcgToUniform(random_lcg_integer(wk[l].tmp)))]
    /\ UNCHANGED <<h5, defs, backend, geobm, plasma, xsubi, cuda, log, cur>>

\* r[] when every lane has written its elements
LanesOut == [k \in BufIdx |-> IF k < LaneIndex(2) THEN wk[1].out[k] ELSE wk[2].out[k]]

\* the loop is over when every iteration is, and the call returns
ParallelJoin ==
    /\ backend = "lcg" /\ \A l \in Engines : wk[l].pc = "done"
    /\ Note(1, Entry("normal_simd", <<>>, wk[1].n, wk[1].pre, rdata[1], LanesOut,
                     Unwritten))
    /\ wk' = [l \in Engines |-> Idle]
    /\ UNCHANGED <<rdata, xsubi, cuda, drawn>>

InitLanes == Start({{"RANDOM_LCG"}})

NextLanes ==
    \/ \E seed \in Seeds : LcgInit(1, seed)
    \/ \E n \in 1..MaxN : ParallelCall(n)
    \/ \E l \in Engines : LaneLoad(l)
    \/ \E l \in Engines : LaneStore(l)
    \/ ParallelJoin

SpecLanes == InitLanes /\ [][NextLanes]_vars

----------------------------------------------------------------------------
(* The plasma loader (hdf5io/hdf5_plasma.c).  A file is what the HDF5       *)
(* library answers about it: find the result of H5LTfind_dataset on        *)
(* /plasma/, type the string attribute "type" of /plasma/ (empty when it   *)
(* cannot be read), n_ions and n_rho the integer attributes, data whether  *)
(* the datasets under /plasma/P_1D can be read.                            *)

\* most ion species and radial grid points in a file
MaxIons == 2
MaxRho == 2

P_1D == <<"P", "_", "1", "D">>
P_1DS == <<"P", "_", "1", "D", "S">>
P_2D == <<"P", "_", "2", "D">>
PlasmaTypes == {<<>>, P_1D, P_1DS, P_2D}

PlasmaFiles ==
    {f \in [find : {0 - 1, 0, 1}, type : PlasmaTypes, n_ions : 0..MaxIons,
            n_rho : 0..MaxRho, data : BOOLEAN] :
        /\ f.find # 1 => f.type = <<>>
        /\ f.type = <<>> => (f.n_ions = 0 /\ f.n_rho = 0 /\ ~f.data)}

\* strncmp(a, b, n) == 0: the first n characters agree, or both strings end
\* before that and agree
StrnEq(a, b, n) ==
    SubSeq(a, 1, IF Len(a) < n THEN Len(a) ELSE n)
        = SubSeq(b, 1, IF Len(b) < n THEN Len(b) ELSE n)

\* offload_array_length = n_rho + 2*n_species*n_rho, n_species = n_ions + 1
PlasmaLength(n_rho, n_ions) == n_rho + 2 * (n_ions + 1) * n_rho

\* the elements the array can have, and some beyond
PlasmaIdx == 0..PlasmaLength(MaxRho, MaxIons)

\* an element: the series that were written there, and whether it holds the
\* file's data
FreshArray == [k \in PlasmaIdx |-> [by |-> {}, data |-> FALSE]]

\* where the series begin: rho, temp_e, temp_i, dens_e, dens_i
RhoAt == 0
TempEAt(n_rho) == n_rho
TempIAt(n_rho) == n_rho * 2
DensEAt(n_rho, n_ions) == n_rho * 2 + n_rho * n_ions
DensIAt(n_rho, n_ions) == n_rho * 2 + n_rho * n_ions + n_rho

\* H5LTread_dataset_double(f, name, p): count elements from at on take the
\* file's data, or nothing is stored when the read fails
ReadSeries(arr, name, at, count, ok) ==
    [k \in PlasmaIdx |->
        IF ok /\ at <= k /\ k < at + count
        THEN [by |-> arr[k].by \cup {name}, data |-> TRUE] ELSE arr[k]]

\* for(i = 0; i < n_rho; i++) p[i] = p[i] * CONST_E / CONST_KB
ScaleSeries(arr, name, at, count) ==
    [k \in PlasmaIdx |->
        IF at <= k /\ k < at + count
        THEN [by |-> arr[k].by \cup {name}, data |-> arr[k].data] ELSE arr[k]]

\* dens_i[j*n_rho + i] = temp_dens_i[j*n_rho + i], temp_dens_i read from the
\* file or left as it was
CopySeries(arr, name, at, count, ok) ==
    [k \in PlasmaIdx |->
        IF at <= k /\ k < at + count
        THEN [by |-> arr[k].by \cup {name}, data |-> ok] ELSE arr[k]]

\* the reads and loops that fill the array, in the order of the code
PlasmaFill(n_rho, n_ions, ok) ==
    CopySeries(
        ScaleSeries(
            ReadSeries(
                ReadSeries(
                    ScaleSeries(
                        ReadSeries(
                            ReadSeries(FreshArray, "rho", RhoAt, n_rho, ok),
                            "temp_e", TempEAt(n_rho), n_rho, ok),
                        "temp_e", TempEAt(n_rho), n_rho),
                    "dens_e", DensEAt(n_rho, n_ions), n_rho, ok),
                "temp_i", TempIAt(n_rho), n_rho, ok),
            "temp_i", TempIAt(n_rho), n_rho),
        "dens_i", DensIAt(n_rho, n_ions), n_ions * n_rho, ok)

\* what a call leaves: the value returned, what malloc gave for
\* *offload_array ("none" when it was not called), the fields of offload_data
\* and the array; a store through the null pointer ends the process
PlasmaNothing(fn, file, ret) ==
    [fn |-> fn, file |-> file, status |-> "returned", ret |-> ret, alloc |-> "none",
     set |-> FALSE, n_species |-> 0, n_rho |-> 0, length |-> 0, array |-> FreshArray]
PlasmaLoaded(fn, file, mem) ==
    [fn |-> fn, file |-> file,
     status |-> IF mem = "null" /\ file.n_rho > 0 THEN "faults" ELSE "returned",
     ret |-> 0, alloc |-> mem, set |-> TRUE, n_species |-> file.n_ions + 1,
     n_rho |-> file.n_rho, length |-> PlasmaLength(file.n_rho, file.n_ions),
     array |-> IF mem = "null" THEN FreshArray
               ELSE PlasmaFill(file.n_rho, file.n_ions, file.data)]

\* int hdf5_plasma_init_offload(f, offload_data, offload_array)
hdf5_plasma_init_offload(file, mem) ==
    IF file.find < 0 THEN PlasmaNothing("init_offload", file, 0 - 1)
    ELSE IF file.type = <<>> THEN PlasmaNothing("init_offload", file, 0 - 1)
    ELSE IF StrnEq(file.type, P_1D, 3) THEN PlasmaLoaded("init_offload", file, mem)
    ELSE PlasmaNothing("init_offload", file, 0)

\* int hdf5_plasma_init_offload_1DS(f, offload_data, offload_array)
hdf5_plasma_init_offload_1DS(file, mem) == PlasmaLoaded("init_offload_1DS", file, mem)

PlasmaInitOffload(file, mem) ==
    /\ plasma' = hdf5_plasma_init_offload(file, mem)
    /\ UNCHANGED <<h5, defs, backend, geobm, rdata, xsubi, cuda, wk, drawn, log, cur>>

\* the function reads the attributes unchecked: called on files that have them
PlasmaInitOffload1DS(file, mem) ==
    /\ file.type # <<>>
    /\ plasma' = hdf5_plasma_init_offload_1DS(file, mem)
    /\ UNCHANGED <<h5, defs, backend, geobm, rdata, xsubi, cuda, wk, drawn, log, cur>>

NextPlasma ==
    \/ \E file \in PlasmaFiles, mem \in {"heap", "null"} : PlasmaInitOffload(file, mem)
    \/ \E file \in PlasmaFiles, mem \in {"heap", "null"} : PlasmaInitOffload1DS(file, mem)

\* a process that loads plasma input
InitPlasma == Start({{}}) /\ xsubi = Drand48X0

SpecPlasma == InitPlasma /\ [][NextPlasma]_vars

----------------------------------------------------------------------------
(* The scripts on the HDF5 file: the options editor and the shell a5ls.     *)
(* A file is the paths of its groups and of its datasets and the attribute  *)
(* "active" of the group /options, the one parent group these files hold.   *)

\* the parent group of the options, the names an options group can get (its
\* type and QID), and a dataset every options group holds
OptionsAt == <<"options">>
OptNames == {"opt_1", "opt_2", "opt_3"}
OptField == "SIM_MODE"
OptGroup(name) == OptionsAt \o <<name>>

\* the file with the options groups of names, the attribute "active" being act
FileWith(names, act) ==
    [groups |-> {Root} \cup (IF names = {} THEN {} ELSE {OptionsAt})
                    \cup {OptGroup(n) : n \in names},
     datasets |-> {OptGroup(n) \o <<OptField>> : n \in names},
     active |-> act]

\* the files a script is started on: without options, with one or two options
\* groups, and one whose attribute names a group that is gone
InitialFiles ==
    {FileWith({}, NoAttr), FileWith({"opt_1"}, "opt_1"),
     FileWith({"opt_1", "opt_2"}, "opt_2"), FileWith({"opt_1"}, "opt_3")}

\* path in h5file; isinstance(h5file[path], h5py.Group)
InFile(file, p) == p \in file.groups \cup file.datasets
IsGroup(file, p) == p \in file.groups

\* "options" in a5.data
HasOptions(file) == OptionsAt \in file.groups

\* a5.data.create_input("opt", activate=..., **options): a new options group
\* of the given name, made active when asked or when it is the first
create_input(file, name, activate) ==
    [groups |-> file.groups \cup {OptionsAt, OptGroup(name)},
     datasets |-> file.datasets \cup {OptGroup(name) \o <<OptField>>},
     active |-> IF activate \/ ~HasOptions(file) THEN name ELSE file.active]

\* a5.data.options[name].activate(); a5.data.options[old].destroy()
activate(file, name) == [file EXCEPT !.active = name]
destroy(file, old) ==
    [file EXCEPT !.groups = @ \ {OptGroup(old)},
                 !.datasets = @ \ {OptGroup(old) \o <<OptField>>}]

\* a5 = Ascot(fn); if not "options" in a5.data: a5.data.create_input("opt")
edit_open(file, name) ==
    IF HasOptions(file) THEN file ELSE create_input(file, name, FALSE)

\* remove after the arguments are parsed and the file is opened: -r was given
\* and the file held options
edit_remove(file, r) == r /\ HasOptions(file)

\* the else branch of if len(desc) == 0, on the file as opened
edit_save(file, name, remove) ==
    IF remove
    THEN destroy(activate(create_input(file, name, FALSE), name), file.active)
    ELSE activate(create_input(file, name, FALSE), name)

\* the whole script on file: n1 and n2 the names create_input gives
a5editoptions(file, r, desc, n1, n2) ==
    IF Len(desc) = 0 THEN edit_open(file, n1)
    ELSE edit_save(edit_open(file, n1), n2, edit_remove(file, r))

\* one run of the options editor, with or without -r; the user leaves the
\* description empty or gives one
EditOptions(r, desc) ==
    /\ h5.sh.status # "prompt"
    /\ HasOptions(h5.file) => IsGroup(h5.file, OptGroup(h5.file.active))
    /\ \E n1, n2 \in OptNames :
          /\ n1 # n2
          /\ ~IsGroup(h5.file, OptGroup(n1)) /\ ~IsGroup(h5.file, OptGroup(n2))
          /\ h5' = [h5 EXCEPT !.file = a5editoptions(h5.file, r, desc, n1, n2),
                               !.step = [tool |-> "a5editoptions", input |-> desc,
                                         arg |-> "", remove |-> r,
                                         file |-> h5.file, group |-> h5.sh.group]]
    /\ UNCHANGED <<defs, backend, geobm, rdata, xsubi, cuda, plasma, wk, drawn, log, cur>>

\* the second word of a line typed at the prompt of a5ls: none, one of the
\* special words, or a path, absolute or not
NoArg == [kind |-> "none", abs |-> FALSE, parts |-> <<>>]
SpecialArgs == {[kind |-> k, abs |-> FALSE, parts |-> <<>>] : k \in {".", "..", "/", "a"}}
ArgPaths ==
    {<<"options">>, <<"opt_1">>, <<"opt_2">>, <<"options", "opt_1">>, <<OptField>>,
     <<"opt_1", OptField>>, <<"nothing">>}
ShellArgs ==
    {NoArg} \cup SpecialArgs
        \cup {[kind |-> "path", abs |-> a, parts |-> q] : a \in BOOLEAN, q \in ArgPaths}
ShellCommands == {"cd", "c", "ls", "print", "set", "help", "quit", "frob"}

\* h5file[p].parent.name; the last ten characters of a group's path, its QID
Parent(p) == IF p = Root THEN Root ELSE SubSeq(p, 1, Len(p) - 1)
Qid(p) == p[Len(p)]

\* 'active' in h5file[p].attrs
HasActive(file, p) == p = OptionsAt /\ file.active # NoAttr

\* get_active_group(h5file, group): the member whose name ends with the
\* attribute, or None when there is none
PyNone == "None"
get_active_group(file, p) ==
    IF InFile(file, p \o <<file.active>>) THEN file.active ELSE PyNone

\* the try block of the loop: what path the line names, and whether the loop
\* goes on to the else block, continues, or leaves with the TypeError of
\* '/'.join([current_group, None])
ShellElse(p) == [go |-> "else", path |-> p]
ShellContinue == [go |-> "continue", path |-> Root]
ShellTypeError == [go |-> "raised", path |-> Root]
a5ls_path(file, group, arg) ==
    IF arg.kind \in {"none", "."} THEN ShellElse(group)
    ELSE IF arg.kind = ".." THEN ShellElse(Parent(group))
    ELSE IF arg.kind = "/" THEN ShellElse(Root)
    ELSE IF arg.kind = "a"
    THEN IF ~HasActive(file, group) THEN ShellContinue
         ELSE IF get_active_group(file, group) = PyNone THEN ShellTypeError
         ELSE ShellElse(group \o <<get_active_group(file, group)>>)
    ELSE IF InFile(file, IF arg.abs THEN arg.parts ELSE group \o arg.parts)
    THEN ShellElse(IF arg.abs THEN arg.parts ELSE group \o arg.parts)
    ELSE ShellContinue

\* cd: current_group after it
A5lsCdAnything(file, group, path) == path
a5ls_cd(file, group, path) == IF IsGroup(file, path) THEN path ELSE group

\* set: the file after set_active_group(h5file, path), where it is called
a5ls_set(file, path) ==
    IF IsGroup(file, path) /\ HasActive(file, Parent(path))
    THEN [file EXCEPT !.active = Qid(path)]
    ELSE file

\* the else block of the loop for the command and the path
a5ls_process(h, cmd, path) ==
    IF cmd \in {"cd", "c"}
    THEN [h EXCEPT !.sh.group = a5ls_cd(h.file, h.sh.group, path)]
    ELSE IF cmd = "set" THEN [h EXCEPT !.file = a5ls_set(h.file, path)]
    ELSE IF cmd = "quit" THEN [h EXCEPT !.sh.status = "ended"]
    ELSE h

\* one pass of the loop on a line of one or two words
a5ls_line(h, cmd, res) ==
    IF res.go = "else" THEN a5ls_process(h, cmd, res.path)
    ELSE IF res.go = "raised" THEN [h EXCEPT !.sh.status = "raised"]
    ELSE h

\* what the shell did last
ShellStep(input, arg) ==
    [tool |-> "a5ls", input |-> input, arg |-> arg.kind, remove |-> FALSE,
     file |-> h5.file, group |-> h5.sh.group]
ShellUnchanged ==
    UNCHANGED <<defs, backend, geobm, rdata, xsubi, cuda, plasma, wk, drawn, log, cur>>

\* a5ls is started on the file: current_group = '/'
A5lsOpen ==
    /\ h5.sh.status # "prompt"
    /\ h5' = [h5 EXCEPT !.sh = [status |-> "prompt", group |-> Root],
                         !.step = [ShellStep("open", NoArg) EXCEPT !.group = Root]]
    /\ ShellUnchanged

\* the user types a line with a command and at most one argument
A5lsCommand(cmd, arg) ==
    /\ h5.sh.status = "prompt"
    /\ h5' = [a5ls_line(h5, cmd, a5ls_path(h5.file, h5.sh.group, arg))
                 EXCEPT !.step = ShellStep(cmd, arg)]
    /\ ShellUnchanged

\* an empty line, or Ctrl-C at the prompt: the loop continues
A5lsContinue(input) ==
    /\ h5.sh.status = "prompt"
    /\ h5' = [h5 EXCEPT !.step = ShellStep(input, NoArg)]
    /\ ShellUnchanged

\* Ctrl-D at the prompt: the loop is left
A5lsEof ==
    /\ h5.sh.status = "prompt"
    /\ h5' = [h5 EXCEPT !.sh.status = "ended", !.step = ShellStep("EOF", NoArg)]
    /\ ShellUnchanged

\* a process that runs the scripts on one of the files
InitTools ==
    /\ defs = {} /\ backend = Compiled(defs) /\ geobm = 1
    /\ rdata = [e \in Engines |-> <<>>] /\ xsubi = Drand48X0
    /\ cuda = [e \in Engines |-> NoCuda] /\ plasma = NoPlasma
    /\ wk = [w \in Engines |-> Idle] /\ drawn = <<>>
    /\ log = [e \in Engines |-> <<>>] /\ cur = 0
    /\ h5 \in {[NoH5 EXCEPT !.file = f] : f \in InitialFiles}

NextTools ==
    \/ \E r \in BOOLEAN, desc \in {"", "new options"} : EditOptions(r, desc)
    \/ A5lsOpen
    \/ \E cmd \in ShellCommands, arg \in ShellArgs : A5lsCommand(cmd, arg)
    \/ \E input \in {"", "KeyboardInterrupt"} : A5lsContinue(input)
    \/ A5lsEof

SpecTools == InitTools /\ [][NextTools]_vars

----------------------------------------------------------------------------
(* Properties.                                                             *)

Called == cur # 0
IsBatch(ent) == ent.op \in {"uniform_simd", "normal_simd", "normal_cuda"}
IsNormal(ent) == ent.op \in {"normal", "normal_simd", "normal_cuda"}
Written(ent) == {i \in BufIdx : ent.out[i] # Unwritten}

\* C1: on the linear-congruential engine a uniform() call replaces the state
\* word r by (2862933555777941757 * r + 3037000493) mod 2^64, once, and returns
\* the new word divided by 2^64 - 1 as doubles divide (the word rounded to 53
\* bits, over 2^64, which is what 2^64 - 1 converts to); init(seed) stores the
\* seed as the state word and draws nothing.
C1_UniformStep ==
    (Called /\ backend = "lcg") =>
        /\ rdata[cur] = Last.post
        /\ Last.op = "uniform" =>
              /\ Last.post = LowBits(Add(Mul(Decimal(2862933, 555777, 941757), Last.pre),
                                         Decimal(0, 3037, 493)), 64)
              /\ Last.ret = [kind |-> "uniform", num |-> RoundNearestEven(Last.post),
                             exp |-> 64]
        /\ Last.op = "init" => Last.post = Last.seed /\ Last.ret = Unwritten

C1_Witness ==
    /\ Called /\ Last.op = "uniform" /\ Len(log[cur]) = 3
    /\ log[cur][2].op = "uniform" /\ Last.post # Last.pre

\* C2 as stated: seeded with 1, the engine's first state transition gives the
\* word 2862933555780979250.
C2_AsStated ==
    (Called /\ Len(log[cur]) >= 2 /\ log[cur][1].seed = Small(1)
        /\ log[cur][2].op = "uniform")
    => log[cur][2].post = Decimal(2862933, 555780, 979250)

\* C2: seeded with 1, the engine's first state transition gives the word
\* (2862933555777941757 * 1 + 3037000493) mod 2^64 = 2862933558814942250, and
\* the first uniform() value is that word divided by 2^64 - 1 as doubles
\* divide: 2862933558814942208 / 2^64.
C2_KnownSeed ==
    (Called /\ Len(log[cur]) >= 2 /\ log[cur][1].seed = Small(1)
        /\ log[cur][2].op = "uniform")
    => /\ log[cur][2].post = Decimal(2862933, 558814, 942250)
       /\ log[cur][2].ret = [kind |-> "uniform", exp |-> 64,
                             num |-> Decimal(2862933, 558814, 942208)]

C2_Witness ==
    /\ Called /\ Len(log[cur]) = 2 /\ log[cur][1].seed = Small(1)
    /\ log[cur][2].op = "uniform"

\* the uniform deviates a call handed to its caller
Uniforms(ent) ==
    {ent.out[i] : i \in {j \in BufIdx : ent.out[j].kind = "uniform"}}

\* C3: every value uniform() returns, and every element uniform_batch writes,
\* is at least 0 and below 1.
C3_UniformBelowOne ==
    (Called /\ backend = "lcg") => \A u \in Uniforms(Last) : Cmp(u.num, Pow2(u.exp)) < 0

\* C4: two linear-congruential engines initialised with the same seed and
\* given the same calls have, after every call, the same state word and
\* have returned the same outputs.
SameCall(a, b) == a.op = b.op /\ a.n = b.n /\ a.seed = b.seed
C4_SameSeedSameSequence ==
    \A k \in 1..(MaxCalls + 1) :
        (/\ Len(log[1]) >= k /\ Len(log[2]) >= k
         /\ \A j \in 1..k : SameCall(log[1][j], log[2][j]))
        => /\ log[1][k].post = log[2][k].post
           /\ log[1][k].out = log[2][k].out
           /\ log[1][k].ret = log[2][k].ret

C4_Witness ==
    /\ Len(log[1]) = 2 /\ Len(log[2]) = 2
    /\ SameCall(log[1][1], log[2][1]) /\ SameCall(log[1][2], log[2][2])
    /\ log[1][2].op = "normal_simd" /\ log[1][2].n = 2
    /\ rdata[1] = rdata[2] /\ rdata[1] # log[1][1].seed

\* C5: a normal_batch request for n >= 0 elements, on the linear-congruential
\* engine, the fallback and the accelerator path, has written out[0..n), all
\* of it and nothing from out[n] on.
C5_WritesExactlyN ==
    (Called /\ IsBatch(Last) /\ IsNormal(Last) /\ Last.n >= 0)
    => Written(Last) = Below(Last.n)

\* what of C5 the three paths do keep: nothing from out[n] on is written, and
\* a request that returns has written all of out[0..n)
C5_NothingBeyondN ==
    (Called /\ IsNormal(Last) /\ Last.n >= 0)
    => /\ Written(Last) \subseteq Below(Last.n)
       /\ Last.status = "returned" => Written(Last) = Below(Last.n)

C5_OddWitness ==
    /\ Called /\ Last.op = "normal_simd" /\ Last.n = 3 /\ backend = "drand48"
    /\ Written(Last) = {0, 1, 2}

C5_HangWitness ==
    /\ Called /\ Last.op = "normal_cuda" /\ Last.n = 3 /\ Last.status = "hangs"
    /\ Written(Last) = {0, 1}

\* C6: a batch request with n = 0 returns, writes no element of the buffer
\* and leaves the engine's state word as it was.
C6_EmptyBatch ==
    (Called /\ backend = "lcg" /\ IsBatch(Last) /\ Last.n = 0)
    => Last.status = "returned" /\ Written(Last) = {} /\ Last.post = Last.pre
       /\ rdata[cur] = Last.pre

C6_Witness ==
    /\ Called /\ IsBatch(Last) /\ Last.n = 0 /\ Len(log[cur]) = 3
    /\ log[cur][2].op = "uniform_simd" /\ log[cur][2].n = 2

\* C7: a batch request with negative n does not return to its caller as an
\* empty request does.
C7_NegativeIsFatal ==
    (Called /\ IsBatch(Last) /\ Last.n < 0) => Last.status # "returned"

\* the deviates of the geometric form a call wrote
GeoForms == {"x1*sqrt(-2*log(w)/w)", "x2*sqrt(-2*log(w)/w)"}
PolarDeviates(ent) ==
    {ent.out[i] : i \in {j \in BufIdx : /\ ent.out[j].kind = "normal"
                                        /\ ent.out[j].form \in GeoForms}}

\* C8: in the geometric (polar) form the rejection loop is left only with
\* 0 < w < 1: no deviate is computed from a w that is 1 or more, or 0.
C8_PolarExit ==
    Called => \A d \in PolarDeviates(Last) : ~GeOne(d.w) /\ ~IsZero(d.w)

\* what of C8 every path keeps: the loop is never left with w >= 1; and where
\* the uniforms come from the linear-congruential engine or from drand48 with
\* no other worker drawing, it is not left with w = 0 from the states explored
C8_NeverAtLeastOne ==
    Called => \A d \in PolarDeviates(Last) : ~GeOne(d.w)
C8_SequentialNonZero ==
    (Called /\ Last.op # "normal_cuda") => \A d \in PolarDeviates(Last) : ~IsZero(d.w)

C8_ZeroWitness ==
    /\ Called /\ Last.op = "normal_cuda" /\ Last.n = 2 /\ Last.status = "returned"
    /\ IsZero(Last.out[0].w)

\* C9: a call on one engine leaves the state word, and the history, of every
\* other engine unchanged.
C9_OwnStateOnly ==
    [][\A e \in Engines : e # cur' => rdata'[e] = rdata[e] /\ log'[e] = log[e]]_vars

C9_Witness ==
    /\ cur = 2 /\ Last.op = "normal_simd" /\ Last.n = 2 /\ Last.post # Last.pre
    /\ Initialised(1) /\ rdata[1] = log[1][1].seed /\ rdata[1] # log[2][1].seed

\* C10: on the fallback the workers draw from the one process-wide stream:
\* the values drand48() hands out, in the order the calls complete, are the
\* successive elements of that stream, whichever worker takes each, and no
\* call ends the process.
C10_OneStreamInterleaved ==
    /\ \A k \in 1..(Len(drawn) - 1) : drawn[k + 1].x = drand48_iterate(drawn[k].x)
    /\ \A w \in Engines : Alive(w)

\* the part of C10 that is so: the same call gives two workers different
\* values, the second worker's depending on what the first one drew
C10_NotByOwnCallsAlone ==
    /\ Len(log[1]) = 1 /\ Len(log[2]) = 1
    /\ log[1][1].op = "uniform_simd" /\ log[1][1].n = 1
    /\ SameCall(log[1][1], log[2][1])
    /\ log[1][1].out # log[2][1].out

\* two workers handed the same element of the stream
C10_SameElementTwice ==
    /\ Len(drawn) = 2 /\ drawn[1].w # drawn[2].w /\ drawn[1].x = drawn[2].x

\* C11: a build that selects no backend, or more than one (RANDOM_MKL and
\* RANDOM_GSL both defined, say), is rejected: it yields no engine, so no call
\* is ever made on one.
BackendMacros == {"RANDOM_MKL", "RANDOM_GSL", "RANDOM_LCG"}
C11_ExactlyOneBackend ==
    Cardinality(defs \cap BackendMacros) # 1 => ~Called

\* both library macros defined, and the vector-library engine takes calls
C11_TwoSelected ==
    /\ {"RANDOM_MKL", "RANDOM_GSL"} \subseteq defs
    /\ Called /\ Last.op = "uniform" /\ Last.ret = LibValue("mkl", "uniform")

\* C12: when malloc fails in the accelerator init, the init is fatal for the
\* worker: no engine is left holding a null scratch buffer with its worker
\* still running, so no sampling call ever uses one.
C12_AllocFailureIsFatal ==
    \A e \in Engines : cuda[e].ptr = "null" => ~Alive(e)

\* the init returned with the null buffer and a sampling call then read
\* through it
C12_NullUsed ==
    /\ Called /\ Last.op = "normal_cuda" /\ Last.status = "faults"
    /\ cuda[cur].ptr = "null" /\ log[cur][1].status = "returned"

\* C13: the accelerator init seeds the device generator from the seed of its
\* worker: two accelerator engines whose workers hold different seeds have
\* differently seeded device generators.
InitEntry(e) == log[e][CHOOSE k \in 1..Len(log[e]) : log[e][k].op \in InitOps]
CudaInitialised(e) == cuda[e].gen.made
C13_SeededFromSeed ==
    \A e1, e2 \in Engines :
        (CudaInitialised(e1) /\ CudaInitialised(e2)
            /\ InitEntry(e1).seed # InitEntry(e2).seed)
        => cuda[e1].gen.seed # cuda[e2].gen.seed

\* two workers with different seeds, both generators seeded with 1234
C13_SameGenerator ==
    /\ CudaInitialised(1) /\ CudaInitialised(2)
    /\ InitEntry(1).seed = SeedOne /\ InitEntry(2).seed = SeedBeforeMax
    /\ cuda[1].gen.seed = Small(1234) /\ cuda[2].gen.seed = Small(1234)

\* C14: the lifecycle of an engine is init, sampling calls, destroy: when a
\* worker has ended, what the init of its library- or accelerator-backed
\* engine acquired (the library's stream or generator, the scratch buffer,
\* the device generator) has been released.
Ended(e) == log[e] # <<>> /\ log[e][Len(log[e])].op = "exit"
HoldsHandle(e) ==
    IF backend \in {"mkl", "gsl"}
    THEN InitEntry(e).post.open /\ rdata[e].open
    ELSE IF backend = "cuda" THEN cuda[e].ptr = "heap" \/ cuda[e].gen.made
    ELSE FALSE
C14_ReleasedAtEnd ==
    \A e \in Engines : (Ended(e) /\ log[e][1].op \in InitOps) => ~HoldsHandle(e)

\* a worker of the statistics-library build has ended after init and a
\* sampling call, its generator still allocated
C14_Leaked ==
    /\ backend = "gsl" /\ Ended(1) /\ Len(log[1]) = 3
    /\ rdata[1] = LibHandle("gsl", SeedOne)

\* C16: when hdf5_plasma_init_offload returns 0 the offload struct holds the
\* parameters and *offload_array is allocated and holds the plasma data of the
\* file in all its elements; and it returns -1, having allocated nothing, when
\* /plasma/ or its attribute type cannot be found.
PlasmaReturned(fn) == plasma.fn = fn /\ plasma.status = "returned"
PlasmaIsLoaded ==
    /\ plasma.set /\ plasma.n_species = plasma.file.n_ions + 1
    /\ plasma.n_rho = plasma.file.n_rho
    /\ plasma.alloc = "heap" \/ (plasma.alloc = "null" /\ plasma.length = 0)
    /\ \A k \in PlasmaIdx : k < plasma.length => plasma.array[k].data
C16_ZeroMeansLoaded ==
    PlasmaReturned("init_offload") =>
        /\ plasma.ret = 0 => PlasmaIsLoaded
        /\ (plasma.file.find < 0 \/ plasma.file.type = <<>>)
              => (plasma.ret = 0 - 1 /\ plasma.alloc = "none")

\* the part about -1: a missing group or attribute gives -1, nothing allocated
C16_MissingGivesMinusOne ==
    PlasmaReturned("init_offload") =>
        /\ (plasma.file.find < 0 \/ plasma.file.type = <<>>)
              => (plasma.ret = 0 - 1 /\ plasma.alloc = "none")
        /\ plasma.ret = 0 - 1 => plasma.alloc = "none"

\* a file of another plasma type: 0 is returned and nothing was done
C16_OtherType ==
    /\ PlasmaReturned("init_offload") /\ plasma.file.type = P_2D
    /\ plasma.ret = 0 /\ plasma.alloc = "none" /\ ~plasma.set

\* a file of type P_1D with its data: 0 is returned and the array is filled
C16_LoadedWitness ==
    /\ PlasmaReturned("init_offload") /\ plasma.file.type = P_1D
    /\ plasma.file.n_rho = 2 /\ plasma.file.n_ions = 1 /\ plasma.ret = 0
    /\ PlasmaIsLoaded /\ plasma.length = 10

\* C17: on the linear-congruential engine with the trigonometric form,
\* normal_batch(n, out) with n >= 0 makes ceil(n/2) pairs: the state word ends
\* 2*ceil(n/2) transitions after where it began, out[2k] and out[2k+1] are
\* both made of the uniforms of transitions 2k+1 and 2k+2, and for odd n the
\* last pair draws both its uniforms while its second deviate is not written.
RECURSIVE LcgWord(_, _)
LcgWord(r, k) == IF k = 0 THEN r ELSE LcgWord(random_lcg_integer(r), k - 1)
CeilHalf(n) == (n + 1) \div 2
TrigCall(ent) ==
    backend = "lcg" /\ geobm = 0 /\ ent.op = "normal_simd" /\ ent.n >= 0
OfPair(d, pre, k) ==
    /\ d # Unwritten
    /\ d.x1 = LcgToUniform(LcgWord(pre, 2 * k + 1))
    /\ d.x2 = LcgToUniform(LcgWord(pre, 2 * k + 2))
C17_CeilHalfPairs ==
    (Called /\ TrigCall(Last)) =>
        /\ Last.post = LcgWord(Last.pre, 2 * CeilHalf(Last.n))
        /\ \A k \in 0..(CeilHalf(Last.n) - 1) :
              /\ OfPair(Last.out[2 * k], Last.pre, k)
              /\ IF 2 * k + 1 < Last.n
                 THEN OfPair(Last.out[2 * k + 1], Last.pre, k)
                 ELSE Last.out[2 * k + 1] = Unwritten
        /\ \A i \in BufIdx : i >= 2 * CeilHalf(Last.n) => Last.out[i] = Unwritten

\* a batch of three: two pairs, four transitions, out[3] not written
C17_Witness ==
    /\ Called /\ TrigCall(Last) /\ Last.n = 3
    /\ Last.post = LcgWord(Last.pre, 4) /\ Last.post # LcgWord(Last.pre, 3)
    /\ Written(Last) = {0, 1, 2}

\* C18: normal() is the batch path with n = 1: on the linear-congruential
\* engine and on the fallback, a normal() call returns what normal_batch(1, out)
\* from the same generator word writes to out[0] and leaves the word that call
\* leaves, which lies a whole number of pairs of transitions after the word
\* the call found (one pair in the trigonometric form).
MaxTries == 12
RECURSIVE Drand48Word(_, _)
Drand48Word(x, k) == IF k = 0 THEN x ELSE Drand48Word(drand48_iterate(x), k - 1)
BatchOfOne(pre) ==
    IF backend = "lcg" THEN random_lcg_normal_simd(geobm, pre, 1, FreshBuf)
    ELSE random_drand48_normal_simd(pre, 1, FreshBuf)
WordAfter(pre, k) == IF backend = "lcg" THEN LcgWord(pre, k) ELSE Drand48Word(pre, k)
PairsConsumed(ent) ==
    IF backend = "lcg" /\ geobm = 0 THEN ent.post = WordAfter(ent.pre, 2)
    ELSE \E t \in 1..MaxTries : ent.post = WordAfter(ent.pre, 2 * t)
C18_NormalIsBatchOfOne ==
    (Called /\ Last.op = "normal") =>
        /\ Last.ret = BatchOfOne(Last.pre).out[0]
        /\ Last.post = BatchOfOne(Last.pre).r
        /\ Last.ret # Unwritten
        /\ PairsConsumed(Last)

\* a scalar normal draw on the linear-congruential engine that used two
\* transitions
C18_Witness ==
    /\ Called /\ Last.op = "normal" /\ backend = "lcg" /\ geobm = 0
    /\ Last.post = LcgWord(Last.pre, 2) /\ Last.ret.form = "w*s"
    /\ Last.ret.x2 = LcgToUniform(Last.post)

\* two engines, normal() on one and normal_batch(1, out) on the other from the
\* same state word: the same value and the same successor
C18_PairAgrees ==
    \A i \in 1..Len(log[1]), j \in 1..Len(log[2]) :
        (log[1][i].op = "normal" /\ log[2][j].op = "normal_simd" /\ log[2][j].n = 1
            /\ log[1][i].pre = log[2][j].pre)
        => (log[1][i].ret = log[2][j].out[0] /\ log[1][i].post = log[2][j].post)
C18_PairWitness ==
    \E i \in 1..Len(log[1]), j \in 1..Len(log[2]) :
        /\ log[1][i].op = "normal" /\ log[2][j].op = "normal_simd" /\ log[2][j].n = 1
        /\ log[1][i].pre = log[2][j].pre

\* C19: in the polar form of every engine, each pass of the rejection loop
\* after a rejected pair tests two uniforms drawn after those of the pass
\* before: the generator has moved on between two tests, and the same pair is
\* never tested twice.  Stated of the first pair of a call.
PolarCall(ent) == IsNormal(ent) /\ geobm = 1 /\ ent.status # "faults" /\ ent.n >= 1
Passes(ent) ==
    IF ent.op = "normal_cuda" THEN cuda_polar_passes(ent.post, Unwritten, 0, MaxTries)
    ELSE IF backend = "lcg" THEN lcg_polar_passes(lcg_polar_try(ent.pre), MaxTries)
    ELSE drand48_polar_passes(drand48_polar_try(ent.pre), MaxTries)
UniformAfter(r, k) ==
    IF backend = "lcg" THEN LcgToUniform(LcgWord(r, k)) ELSE Drand48Value(Drand48Word(r, k))
FreshAfter(a, b) ==
    /\ b.r # a.r
    /\ b.x1 = TwoUMinusOne(UniformAfter(a.r, 1))
    /\ b.x2 = TwoUMinusOne(UniformAfter(a.r, 2))
C19_RedrawsBoth ==
    (Called /\ PolarCall(Last) /\ (Last.op = "normal_cuda" => Last.n >= 2)) =>
        \A s \in 1..(Len(Passes(Last)) - 1) :
            FreshAfter(Passes(Last)[s], Passes(Last)[s + 1])

\* a call whose first pair was rejected and drawn again
C19_RejectedOnce ==
    /\ Called /\ PolarCall(Last) /\ Last.op # "normal_cuda"
    /\ Len(Passes(Last)) >= 2

\* the accelerator path tests the rejected pair again
C19_SamePairAgain ==
    /\ Called /\ Last.op = "normal_cuda" /\ Last.n = 2 /\ Last.status = "hangs"
    /\ Len(Passes(Last)) >= 2 /\ Passes(Last)[1] = Passes(Last)[2]

\* C20: in the trigonometric form, with w = sqrt(-2*log(x1)) and
\* s = cos(2*pi*x2) of the pair's uniforms, the first deviate written is w*s
\* and the second, where it is written, is w*sqrt(1-s*s) if x2 < 0.5 and
\* -w*sqrt(1-s*s) otherwise, x2 = 0.5 included; the terms hold no
\* trigonometric function besides the cosine in s.
BelowHalf(u) == Cmp(u.num, Pow2(u.exp - 1)) < 0
SecondForm(x2) == IF BelowHalf(x2) THEN "w*sqrt(1-s*s)" ELSE "-w*sqrt(1-s*s)"
TrigOrScalar(ent) ==
    backend = "lcg" /\ geobm = 0 /\ ent.op \in {"normal", "normal_simd"} /\ ent.n >= 0
C20_TrigPair ==
    (Called /\ TrigOrScalar(Last)) =>
        \A k \in 0..(CeilHalf(Last.n) - 1) :
            /\ OfPair(Last.out[2 * k], Last.pre, k)
            /\ Last.out[2 * k].form = "w*s"
            /\ 2 * k + 1 < Last.n =>
                  /\ OfPair(Last.out[2 * k + 1], Last.pre, k)
                  /\ Last.out[2 * k + 1].form = SecondForm(Last.out[2 * k + 1].x2)

\* a pair whose x2 is exactly 0.5: the second deviate is the negative one
C20_Witness ==
    /\ Called /\ TrigOrScalar(Last) /\ Last.n >= 2
    /\ Last.out[0].form = "w*s"
    /\ Last.out[1].x2 = [kind |-> "uniform", num |-> Pow2(63), exp |-> 64]
    /\ Last.out[1].form = "-w*sqrt(1-s*s)"

\* a pair whose x2 is below 0.5: the second deviate is the positive one
C20_PositiveWitness ==
    /\ Called /\ TrigOrScalar(Last) /\ Last.n >= 2
    /\ BelowHalf(Last.out[1].x2) /\ Last.out[1].form = "w*sqrt(1-s*s)"

\* C21: the transform is applied to uniforms strictly inside (0, 1): in the
\* trigonometric form on the linear-congruential engine the x1 whose
\* logarithm is taken is neither 0 nor 1 in any deviate a call writes or
\* returns, so no deviate is infinite or undefined.
TrigDeviates(ent) ==
    {ent.out[i] : i \in Written(ent)}
        \cup (IF ent.ret = Unwritten THEN {} ELSE {ent.ret})
C21_LogArgumentInside ==
    (Called /\ TrigOrScalar(Last)) =>
        \A d \in TrigDeviates(Last) : ~IsZero(d.x1) /\ ~GeOne(d.x1)

\* the state word 0 gives x1 = 0.0, whose logarithm is taken
C21_ZeroWitness ==
    /\ Called /\ TrigOrScalar(Last) /\ Last.n >= 1
    /\ LcgWord(Last.pre, 1) = <<>> /\ IsZero(Last.out[0].x1)

\* the state word 2^64 - 1 gives x1 = 1.0
C21_OneWitness ==
    /\ Called /\ TrigOrScalar(Last) /\ Last.n >= 1
    /\ LcgWord(Last.pre, 1) = UINT64_MAX /\ GeOne(Last.out[0].x1)


\* C22: a call on the accelerator path runs in two phases: the one device
\* call that generates the n uniforms into the scratch buffer comes before
\* any pair is transformed, the transform reads its uniforms only from the
\* entries of that buffer, and no generator is called during the transform.
CudaCall(ent) == ent.op = "normal_cuda" /\ ent.status # "faults"
C22_TwoPhases ==
    (Called /\ CudaCall(Last)) =>
        /\ Last.trace[1] = GenerateEvent(Last.n)
        /\ \A k \in 2..Len(Last.trace) :
               Last.trace[k].ev = "read" /\ Last.trace[k].at < cuda[cur].cap

\* what of C22 the code keeps: the device call is the first event and the
\* only generator call, every later event is a read of r_cuda
C22_GenerateFirst ==
    (Called /\ CudaCall(Last)) =>
        /\ Last.trace[1] = GenerateEvent(Last.n)
        /\ \A k \in 2..Len(Last.trace) : Last.trace[k].ev = "read"

\* a transform that read the entry after the last one of the buffer
C22_ReadsPastBuffer ==
    /\ Called /\ CudaCall(Last) /\ Last.n = cuda[cur].cap
    /\ ReadEvent(cuda[cur].cap) = Last.trace[Len(Last.trace)]

\* C23: for every n from 0 to the capacity a call on the accelerator path
\* reads only entries of the scratch buffer with index below n, the uniforms
\* of this call, odd n included.
C23_ReadsBelowN ==
    (Called /\ CudaCall(Last)) =>
        \A k \in 2..Len(Last.trace) : Last.trace[k].at < Last.n

\* an odd request that read r_cuda[n], an entry an earlier call had stored
C23_ReadsStale ==
    /\ Called /\ CudaCall(Last) /\ IsEven(Last.n) = 0 /\ Last.n < cuda[cur].cap
    /\ \E k \in 2..Len(Last.trace) : Last.trace[k] = ReadEvent(Last.n)
    /\ Last.pre[Last.n] # Unwritten /\ Last.post[Last.n] = Last.pre[Last.n]

\* C24: every sampling operation terminates; the accelerator path returns for
\* every n >= 0 and every content of the buffer, pairs outside the unit
\* circle included.
SamplingCall(ent) == ent.op \notin InitOps /\ ent.status # "faults"
C24_Terminates ==
    (Called /\ SamplingCall(Last)) => Last.status = "returned"

\* what of C24 the other paths keep: the calls on drand48 return
C24_FallbackTerminates ==
    (Called /\ SamplingCall(Last) /\ Last.op # "normal_cuda")
        => Last.status = "returned"

\* a request on the accelerator path whose first pair lies outside the circle
C24_OutsideCircle ==
    /\ Called /\ Last.op = "normal_cuda" /\ Last.n >= 1 /\ Last.status = "hangs"
    /\ GeOne(cuda_polar_try(Last.post, Last.post[0], 0).w)

\* C25: on the linear-congruential engine uniform_batch(n, out) from the
\* state word s writes the n values that n successive uniform() calls from s
\* return, in the same order, and leaves the state word they leave.
RECURSIVE SuccessiveUniforms(_, _, _, _)
SuccessiveUniforms(r, i, n, out) ==
    IF i >= n THEN [r |-> r, out |-> out]
    ELSE SuccessiveUniforms(random_lcg_uniform(r).r, i + 1, n,
                            [out EXCEPT ![i] = random_lcg_uniform(r).ret])
C25_BatchIsSuccessiveCalls ==
    (Called /\ backend = "lcg" /\ Last.op = "uniform_simd" /\ Last.n >= 0) =>
        /\ Last.out = SuccessiveUniforms(Last.pre, 0, Last.n, FreshBuf).out
        /\ Last.post = SuccessiveUniforms(Last.pre, 0, Last.n, FreshBuf).r

\* a batch of MaxN uniforms, all written, the word MaxN transitions on
C25_Witness ==
    /\ Called /\ backend = "lcg" /\ Last.op = "uniform_simd" /\ Last.n = MaxN
    /\ Written(Last) = Below(MaxN) /\ Last.post = LcgWord(Last.pre, MaxN)
    /\ Last.out[0] # Last.out[1]

\* C26: with the pair loop of normal_batch on the linear-congruential engine
\* run data-parallel on one engine, no transition of the state word is lost
\* or used by two pairs (the words the draws store are successive words of
\* the recurrence), and the buffer and the final word are those of the
\* sequential loop.
C26_ParallelIsSequential ==
    /\ \A k \in 1..(Len(drawn) - 1) : drawn[k + 1].x = random_lcg_integer(drawn[k].x)
    /\ (Called /\ Last.op = "normal_simd") =>
          /\ Last.out = random_lcg_normal_simd(geobm, Last.pre, Last.n, FreshBuf).out
          /\ Last.post = random_lcg_normal_simd(geobm, Last.pre, Last.n, FreshBuf).r

\* what of C26 holds: a loop of one iteration is the sequential loop
C26_OneLaneIsSequential ==
    (Called /\ Last.op = "normal_simd" /\ Last.n <= LaneIndex(2)) =>
        /\ Last.out = random_lcg_normal_simd(geobm, Last.pre, Last.n, FreshBuf).out
        /\ Last.post = random_lcg_normal_simd(geobm, Last.pre, Last.n, FreshBuf).r

\* two lanes stored the same successor of the word both had read, and the
\* call returned with both pairs made of the same uniform
C26_TransitionUsedTwice ==
    /\ Called /\ Last.op = "normal_simd" /\ Last.n > LaneIndex(2)
    /\ drawn[1].w # drawn[2].w /\ drawn[1].x = drawn[2].x
    /\ Last.out[0].x1 = Last.out[LaneIndex(2)].x1

\* the draws were successive words, and the second pair holds the first two
C26_PairsSwapped ==
    /\ Called /\ Last.op = "normal_simd" /\ Last.n > LaneIndex(2)
    /\ \A k \in 1..(Len(drawn) - 1) : drawn[k + 1].x = random_lcg_integer(drawn[k].x)
    /\ Last.out # random_lcg_normal_simd(geobm, Last.pre, Last.n, FreshBuf).out

\* C27: in both loaders, for every n_rho >= 0 and n_ions >= 0, the regions of
\* the packed array written for rho, temp_e, temp_i, dens_e and dens_i are
\* pairwise disjoint (no element is written for two series) and every
\* written index is below offload_array_length.
PlasmaFilled == plasma.fn # "none" /\ plasma.set /\ plasma.alloc = "heap"
C27_RegionsDisjoint ==
    PlasmaFilled =>
        \A k \in PlasmaIdx :
            /\ Cardinality(plasma.array[k].by) <= 1
            /\ plasma.array[k].by # {} => k < plasma.length

\* what of C27 holds: no write reaches offload_array_length, and with one ion
\* species or more the regions are disjoint
C27_WithinLength ==
    PlasmaFilled =>
        \A k \in PlasmaIdx : plasma.array[k].by # {} => k < plasma.length
C27_DisjointWithIons ==
    (PlasmaFilled /\ plasma.n_species > 1) =>
        \A k \in PlasmaIdx : Cardinality(plasma.array[k].by) <= 1

\* a file without ion species: dens_e and temp_i are the same elements
C27_Overlap ==
    /\ PlasmaFilled /\ plasma.n_species = 1 /\ plasma.n_rho >= 1
    /\ plasma.array[TempIAt(plasma.n_rho)].by = {"dens_e", "temp_i"}

\* C28: when the user gives the options editor an empty description the file
\* is left as it was: no options group is created, activated or destroyed,
\* whether or not the file held options and whether or not -r was given.
EditedWithout ==
    h5.step.tool = "a5editoptions" /\ Len(h5.step.input) = 0
C28_EmptyDescriptionChangesNothing ==
    EditedWithout => h5.file = h5.step.file

\* what of C28 holds: a file that held options is left as it was
C28_WithOptionsUnchanged ==
    (EditedWithout /\ HasOptions(h5.step.file)) => h5.file = h5.step.file

\* the run on a file without options left an options group there, active
C28_DefaultCreated ==
    /\ EditedWithout /\ ~HasOptions(h5.step.file)
    /\ HasOptions(h5.file) /\ IsGroup(h5.file, OptGroup(h5.file.active))

\* C29: in the a5ls shell the current group is always the path of a group of
\* the file: cd changes it only to the path of a group that exists, and every
\* other line (ls, print, set, help, an unknown command, an empty or
\* interrupted prompt) leaves it as it was.
ShellStepped == h5.sh.status = "prompt" /\ h5.step.tool = "a5ls"
C29_CurrentGroupExists ==
    ShellStepped =>
        /\ IsGroup(h5.file, h5.sh.group)
        /\ h5.sh.group # h5.step.group =>
              h5.step.input \in {"cd", "c"} /\ IsGroup(h5.step.file, h5.sh.group)

\* a cd with a path has left the shell in the options group it was in; a cd
\* to the active group has moved it there from /options
C29_Witness ==
    /\ ShellStepped /\ h5.step.input = "cd" /\ h5.step.arg = "path"
    /\ h5.sh.group = OptGroup("opt_1") /\ h5.step.group = h5.sh.group
    /\ InFile(h5.file, h5.sh.group \o <<OptField>>)
C29_MovedWitness ==
    /\ ShellStepped /\ h5.step.input = "cd" /\ h5.step.arg = "a"
    /\ h5.step.group = OptionsAt /\ h5.sh.group = OptGroup(h5.file.active)

\* C30: the transition of the linear-congruential engine is injective on the
\* 64-bit words: two engines initialised with different seeds hold different
\* state words after equal numbers of uniform draws.
RECURSIVE UniformDraws(_, _)
UniformDraws(e, k) ==
    IF k <= 1 THEN 0 ELSE UniformDraws(e, k - 1) + log[e][k].n
OnlyUniforms(e) ==
    \A k \in 2..Len(log[e]) :
        log[e][k].op \in {"uniform", "uniform_simd"} /\ log[e][k].n >= 0
EqualDraws ==
    /\ Initialised(1) /\ Initialised(2) /\ OnlyUniforms(1) /\ OnlyUniforms(2)
    /\ log[1][1].seed # log[2][1].seed
    /\ UniformDraws(1, Len(log[1])) = UniformDraws(2, Len(log[2]))
C30_Injective == EqualDraws => rdata[1] # rdata[2]

\* both engines have drawn MaxPairN uniforms, from seeds that differ in the
\* highest bit, and so do their words
C30_Witness ==
    /\ EqualDraws /\ UniformDraws(1, Len(log[1])) = MaxPairN
    /\ rdata[1] = LcgWord(SeedOne, MaxPairN) /\ rdata[2] = LcgWord(SeedOneHigh, MaxPairN)
    /\ rdata[1] # rdata[2]
============================================================================
